---- MODULE Spec2Model ----
(***************************************************************************)
(* Model of the ingestion-and-fan-out pipeline of the Claude Code          *)
(* Observatory backend:                                                    *)
(*   - the WebSocket connection registry and its broadcaster               *)
(*     (app/websocket/connection_manager.py), specification Spec;          *)
(*   - the persistence writer and the part of the orchestrator and parser  *)
(*     that feeds it (app/monitoring/database_writer.py, file_monitor.py,  *)
(*     jsonl_parser.py), specification WriterSpec;                         *)
(*   - the orchestrator's lifecycle (file_monitor.py), specification       *)
(*     MonitorSpec, and the watcher's event handler (file_handler.py),     *)
(*     specification WatcherSpec;                                          *)
(*   - the JSONL parser on the content of a file (jsonl_parser.py),        *)
(*     specification ParserSpec.                                           *)
(* The registry runs on one asyncio event loop: a coroutine runs without   *)
(* interruption from one await to the next, so every action below is one   *)
(* such block.  The writer runs on the watcher thread, one call at a time; *)
(* every backend round trip is one action.                                 *)
(***************************************************************************)
EXTENDS Integers, Sequences, FiniteSets, TLC

(***************************************************************************)
(* Bounds of the model.                                                    *)
(***************************************************************************)
\* number of connect() calls (client ids minted); at most 5, the number of
\* insertions a CPython dict takes before it first rebuilds its entry array
MaxClients == 2
\* number of broadcast() calls
MaxBroadcasts == 2
\* number of _send_to_client() calls made outside connect
MaxSends == 1
\* number of write_conversation() calls, direct or by the orchestrator
MaxWrites == 2
\* number of file events the orchestrator handles
MaxEvents == 2
\* number of lines of a transcript
MaxMessages == 2
\* number of projects the direct callers write to
MaxProjects == 2
\* number of /ws handshakes that are closed before accept
MaxRejects == 3
\* number of start() and stop() calls on one monitor
MaxCalls == 5
\* number of events the observer thread dispatches
MaxDispatches == 2
\* number of lines of a file the parser reads
MaxLines == 2
\* number of blocks of a message's content array
MaxBlocks == 2
\* parse_line() calls between two resets of the parser's statistics
MaxParsed == 3
\* PerformanceMonitor(max_samples): the length of the three sample buffers
MaxSamples == 2
\* record_metrics() calls on one monitor
MaxRecords == 3
\* frames an endpoint's receive loop reads from one peer
MaxFrames == 2
\* enqueue() calls on one priority message queue
MaxQueued == 3

\* database_writer.py: MAX_RETRIES, and INITIAL_RETRY_DELAY_S in milliseconds
MAX_RETRIES == 3
INITIAL_RETRY_DELAY_MS == 100
\* PerformanceMonitor(sla_threshold_ms=100.0)
SLA_THRESHOLD_MS == 100
\* get_summary: compliance >= 0.99 is OK, >= 0.95 is DEGRADED, in percent
OK_COMPLIANCE_PCT == 99
DEGRADED_COMPLIANCE_PCT == 95
\* latencies are counted in units of 0.1 ms, the floor that
\* _handle_file_event puts under a detection latency: max(0.1, ...)
TicksPerMs == 10

VARIABLES
    active_connections, \* dict client_id -> WebSocket, as its entry array
    subscriptions,      \* dict subscription key -> set of client ids
    client_metadata,    \* dict client_id -> {subscriptions, message_count}
    nextClient,         \* the next client id uuid4() mints
    inbox,              \* per WebSocket: the frames send_text delivered
    connCall,           \* per connect() call: where the coroutine stands
    bc,                 \* per broadcast() call: where the coroutine stands
    sends               \* number of _send_to_client() calls made outside connect

regVars == <<active_connections, subscriptions, client_metadata, nextClient,
             inbox, connCall, bc, sends>>

VARIABLES
    conversations,      \* the rows of the conversations table
    messages,           \* the rows of the messages table
    stats,              \* DatabaseWriter.stats
    monitor_stats,      \* FileMonitor.stats
    total_samples,      \* PerformanceMonitor.stats["total_samples"]
    nextUuid,           \* the number of project ids the parser has minted
    events,             \* the number of file events handled
    escaped,            \* the number of exceptions that left _handle_file_event
    call,               \* the write_conversation() call in progress, or the last one
    writes              \* history: one summary per finished write_conversation()

writerVars == <<conversations, messages, stats, monitor_stats, total_samples,
                nextUuid, events, escaped, call, writes>>

VARIABLES
    endpoint,           \* per session: the endpoint coroutine that accepted it
    ws_closes,          \* the handshakes that /ws closed, in order
    received,           \* per session: the frames its receive loop has read
    published           \* history: one record per call of a broadcast_*
                        \* function of websocket_handler.py

epVars == <<endpoint, ws_closes, received, published>>

VARIABLES
    watch_path,         \* FileMonitor.watch_path
    root_exists,        \* whether the directory watch_path names exists
    running,            \* FileMonitor._running
    observer,           \* FileMonitor.observer and the state of its thread
    calls,              \* history: one record per start() or stop() call, with
                        \* how it ended and whether it made the watch directory
    dispatched,         \* history: the last event the observer thread dispatched
    delivered,          \* history: the FileEvents the handler passed to its callback
    propagated,         \* the exceptions that left the handler's on_* methods
    abandoned,          \* the observers that stop() gave up waiting for and
                        \* whose thread has not ended
    late                \* history: the dispatches of abandoned observers

lifeVars == <<watch_path, root_exists, running, observer, calls, dispatched,
              delivered, propagated, abandoned, late>>

VARIABLES
    file_path,          \* the argument of parse_conversation_file()
    file,               \* the lines of that file
    parsed,             \* what the call returned, once it has
    parser_stats,       \* JSONLParser.stats
    line_call           \* history: the last parse_line() call and its return

parserVars == <<file_path, file, parsed, parser_stats, line_call>>

VARIABLES
    detection_latencies,  \* PerformanceMonitor.detection_latencies (a deque)
    processing_latencies, \* PerformanceMonitor.processing_latencies
    throughput_samples,   \* PerformanceMonitor.throughput_samples
    perf_stats,           \* PerformanceMonitor.stats
    rec,                  \* the record_metrics() call in progress, if any
    summary,              \* what the last get_summary() call returned
    recorded,             \* history: the samples recorded since the last reset,
                          \* those over the threshold, and the calls made
    clocks                \* the clocks of the host: when time.perf_counter()
                          \* read 0, and how long after an event's detection
                          \* its processing starts

perfVars == <<detection_latencies, processing_latencies, throughput_samples,
              perf_stats, rec, summary, recorded, clocks>>

VARIABLES
    queue,              \* PriorityMessageQueue._queue: the entries of the heap
    entry_finder,       \* PriorityMessageQueue._entry_finder
    counter,            \* PriorityMessageQueue._counter
    dequeued            \* history: how each dequeue() call ended

queueVars == <<queue, entry_finder, counter, dequeued>>

vars == <<regVars, writerVars, epVars, lifeVars, parserVars, perfVars,
          queueVars>>

ClientIds == 1..MaxClients
Bcasts == 1..MaxBroadcasts

\* the keys the registry's index is created with
WellKnownKeys == {"all_conversations", "project_updates", "file_events"}
\* subscription_filter=None
NoFilter == "<None>"
\* the filters the producers use; "project:p1" is a key of the subscription
\* grammar that the index is not created with
Filters == {NoFilter, "all_conversations", "file_events", "project:p1"}
\* the subscriptions argument of connect(); <<>> stands for None / empty
SubChoices == {<<>>, <<"file_events">>, <<"project:p1">>}

\* how an awaited WebSocket.send_text ends: the frame is delivered, or the
\* call raises WebSocketDisconnect (peer closed, normally or abnormally) or
\* RuntimeError (connection error, send after close)
SendOutcomes == {"ok", "WebSocketDisconnect", "RuntimeError"}

EstFrame(c) == [type |-> "connection_established", id |-> c]
BcFrame(b) == [type |-> "broadcast", id |-> b]
SendFrame(c) == [type |-> "send", id |-> c]

Range(s) == {s[i] : i \in DOMAIN s}
Count(x, s) == Cardinality({i \in DOMAIN s : s[i] = x})
MinOf(S) == CHOOSE x \in S : \A y \in S : x <= y

(***************************************************************************)
(* The dict active_connections.  CPython keeps the entries in insertion    *)
(* order; pop() leaves the entry in place as a dummy and a new key is      *)
(* appended.  An iterator holds the size at its creation (di_used), the    *)
(* number of items it still expects (di_len) and its position (di_pos).    *)
(***************************************************************************)
Keys(d) == {d[i].key : i \in {j \in DOMAIN d : d[j].live}}
LiveCount(d) == Cardinality({i \in DOMAIN d : d[i].live})
DictSet(d, c) == Append(d, [key |-> c, live |-> TRUE])
DictPop(d, c) ==
    [i \in DOMAIN d |->
        IF d[i].key = c THEN [d[i] EXCEPT !.live = FALSE] ELSE d[i]]
NextLive(d, pos) ==
    LET S == {i \in DOMAIN d : i >= pos /\ d[i].live}
    IN IF S = {} THEN 0 ELSE MinOf(S)

\* client_metadata has no entry for the client
NoMetadata == [present |-> FALSE, subscriptions |-> <<>>, message_count |-> 0]
MetaKeys == {c \in ClientIds : client_metadata[c].present}

\* a broadcast() call.  pending is the part of target_clients the loop has
\* not visited yet; di_* is the iterator over active_connections.  addressed
\* is history kept for the properties: the sessions the routing rule of the
\* registry addresses at the moment of the call.
BcIdle == [status |-> "idle", filter |-> NoFilter, addressed |-> {},
           pending |-> {}, di_used |-> 0, di_len |-> 0, di_pos |-> 0,
           cur |-> {}, failed |-> <<>>, error |-> ""]

RegInit ==
    /\ active_connections = <<>>
    /\ subscriptions = [k \in WellKnownKeys |-> {}]
    /\ client_metadata = [c \in ClientIds |-> NoMetadata]
    /\ nextClient = 1
    /\ inbox = [c \in ClientIds |-> <<>>]
    /\ connCall = [c \in ClientIds |-> "none"]
    /\ bc = [b \in Bcasts |-> BcIdle]
    /\ sends = 0

(***************************************************************************)
(* connect(websocket, subscriptions): from the return of                   *)
(* websocket.accept() to the await of the confirmation's send_text.        *)
(***************************************************************************)
DefaultSubscriptions == <<"all_conversations", "file_events">>

connect(subs) ==
    /\ nextClient <= MaxClients
    /\ LET c == nextClient
           effective == IF subs = <<>> THEN DefaultSubscriptions ELSE subs
       IN /\ active_connections' = DictSet(active_connections, c)
          /\ subscriptions' =
                [k \in WellKnownKeys |->
                    IF k \in Range(effective) THEN subscriptions[k] \cup {c}
                    ELSE subscriptions[k]]
          /\ client_metadata' =
                [client_metadata EXCEPT ![c] =
                    [present |-> TRUE, subscriptions |-> effective,
                     message_count |-> 0]]
          /\ connCall' = [connCall EXCEPT ![c] = "sending"]
    /\ nextClient' = nextClient + 1
    /\ UNCHANGED <<inbox, bc, sends>>
    /\ UNCHANGED writerVars

\* the confirmation's send_text ends: _send_to_client counts the frame and
\* connect returns the client id, or the send's exception leaves connect
connectResume(c, outcome) ==
    /\ connCall[c] = "sending"
    /\ IF outcome = "ok"
       THEN /\ inbox' = [inbox EXCEPT ![c] = Append(@, EstFrame(c))]
            /\ client_metadata' =
                  [client_metadata EXCEPT ![c].message_count =
                      IF client_metadata[c].present THEN @ + 1 ELSE @]
            /\ connCall' = [connCall EXCEPT ![c] = "returned"]
       ELSE /\ connCall' = [connCall EXCEPT ![c] = "raised"]
            /\ UNCHANGED <<inbox, client_metadata>>
    /\ UNCHANGED <<active_connections, subscriptions, nextClient, bc, sends>>
    /\ UNCHANGED writerVars

\* mutant: the index sets are not cleaned
disconnectKeepsIndex(c) ==
    /\ active_connections' = DictPop(active_connections, c)
    /\ client_metadata' = [client_metadata EXCEPT ![c] = NoMetadata]
    /\ UNCHANGED <<subscriptions, nextClient, inbox, connCall, bc, sends>>
    /\ UNCHANGED writerVars

\* mutant: the metadata entry is not removed
disconnectKeepsMetadata(c) ==
    /\ subscriptions' = [k \in WellKnownKeys |-> subscriptions[k] \ {c}]
    /\ active_connections' = DictPop(active_connections, c)
    /\ UNCHANGED <<client_metadata, nextClient, inbox, connCall, bc, sends>>
    /\ UNCHANGED writerVars

(***************************************************************************)
(* disconnect(client_id): synchronous, no await.                           *)
(***************************************************************************)
disconnect(c) ==
    /\ subscriptions' = [k \in WellKnownKeys |-> subscriptions[k] \ {c}]
    /\ active_connections' = DictPop(active_connections, c)
    /\ client_metadata' = [client_metadata EXCEPT ![c] = NoMetadata]
    /\ UNCHANGED <<nextClient, inbox, connCall, bc, sends>>
    /\ UNCHANGED writerVars

\* mutant: a failed send removes the session from the registry
send_to_clientDropsOnFailure(c, outcome) ==
    /\ sends < MaxSends
    /\ sends' = sends + 1
    /\ IF c \in Keys(active_connections) /\ outcome = "ok"
       THEN /\ inbox' = [inbox EXCEPT ![c] = Append(@, SendFrame(c))]
            /\ client_metadata' =
                  [client_metadata EXCEPT ![c].message_count =
                      IF client_metadata[c].present THEN @ + 1 ELSE @]
            /\ UNCHANGED <<active_connections, subscriptions>>
       ELSE /\ subscriptions' = [k \in WellKnownKeys |-> subscriptions[k] \ {c}]
            /\ active_connections' = DictPop(active_connections, c)
            /\ UNCHANGED <<inbox, client_metadata>>
    /\ UNCHANGED <<nextClient, connCall, bc>>
    /\ UNCHANGED writerVars

(***************************************************************************)
(* _send_to_client(client_id, message) called on its own.  The table is    *)
(* read before the await and only the client's own counter is written      *)
(* after it, so the call is one step: a disconnect during the await        *)
(* removes the counter that the step would have bumped.                    *)
(***************************************************************************)
send_to_client(c, outcome) ==
    /\ sends < MaxSends
    /\ sends' = sends + 1
    /\ IF c \in Keys(active_connections) /\ outcome = "ok"
       THEN /\ inbox' = [inbox EXCEPT ![c] = Append(@, SendFrame(c))]
            /\ client_metadata' =
                  [client_metadata EXCEPT ![c].message_count =
                      IF client_metadata[c].present THEN @ + 1 ELSE @]
       ELSE \* ValueError (client not found) or the send's exception
            UNCHANGED <<inbox, client_metadata>>
    /\ UNCHANGED <<active_connections, subscriptions, nextClient, connCall, bc>>
    /\ UNCHANGED writerVars

(***************************************************************************)
(* broadcast(message, subscription_filter).                                *)
(***************************************************************************)
\* the routing rule (section 4.6): the sessions a filter addresses
Index(k) == IF k \in DOMAIN subscriptions THEN subscriptions[k] ELSE {}
Addressed(F) ==
    IF F \in {NoFilter, "all_conversations"}
    THEN Keys(active_connections)
    ELSE Index(F) \cup Index("all_conversations")

\* mutant: the subscribers of all_conversations are not added
TargetClientsNoFirehose(F) ==
    IF F = "all_conversations"
    THEN Keys(active_connections)
    ELSE IF F \in DOMAIN subscriptions THEN subscriptions[F] ELSE {}

\* target_clients, as broadcast collects it for a filter that is not None
TargetClients(F) ==
    IF F = "all_conversations"
    THEN Keys(active_connections)
    ELSE (IF F \in DOMAIN subscriptions THEN subscriptions[F] ELSE {})
         \cup (IF "all_conversations" \in DOMAIN subscriptions
               THEN subscriptions["all_conversations"] ELSE {})

\* the call has left the loop: its iteration state is gone
Finished(r, how, err) ==
    [r EXCEPT !.status = how, !.error = err, !.cur = {}, !.pending = {},
              !.di_used = 0, !.di_len = 0, !.di_pos = 0]

\* the head of the for loop: the next client whose send_text is awaited, the
\* end of the loop, or the error the dict iterator raises.  r is the call's
\* state after the previous send.  A set is iterated in an order the code
\* does not control.
LoopHead(r) ==
    IF r.status = "raised"
    THEN {r}
    ELSE IF r.filter = NoFilter
    THEN IF r.di_used # LiveCount(active_connections)
         THEN {Finished(r, "raised", "dictionary changed size during iteration")}
         ELSE LET i == NextLive(active_connections, r.di_pos)
              IN IF i = 0
                 THEN {Finished(r, "returned", "")}
                 ELSE IF r.di_len = 0
                 THEN {Finished(r, "raised", "dictionary keys changed during iteration")}
                 ELSE {[r EXCEPT !.status = "sending",
                                 !.cur = {active_connections[i].key},
                                 !.di_pos = i + 1, !.di_len = @ - 1]}
    ELSE LET live == r.pending \cap Keys(active_connections)
         IN IF live = {}
            THEN {Finished(r, "returned", "")}
            ELSE {[r EXCEPT !.status = "sending", !.cur = {c},
                            !.pending = live \ {c}] : c \in live}

\* mutant: the failure is swallowed without being recorded
SendFailedUnrecorded(r, c, outcome) == r

\* the except clause of a send: WebSocketDisconnect and RuntimeError are
\* recorded and the loop continues
SendFailed(r, c, outcome) == [r EXCEPT !.failed = Append(@, c)]

\* the call up to its first await: serialization, the addressed set, the
\* first send
broadcast(b, F, serializable) ==
    /\ bc[b].status = "idle"
    /\ \A a \in Bcasts : a < b => bc[a].status # "idle"
    /\ IF ~serializable
       THEN bc' = [bc EXCEPT ![b] =
                      Finished([BcIdle EXCEPT !.filter = F,
                                              !.addressed = Addressed(F)],
                               "returned", "serialization")]
       ELSE LET r == [BcIdle EXCEPT
                        !.filter = F,
                        !.addressed = Addressed(F),
                        !.pending = IF F = NoFilter THEN {} ELSE TargetClients(F),
                        !.di_used = IF F = NoFilter THEN LiveCount(active_connections) ELSE 0,
                        !.di_len = IF F = NoFilter THEN LiveCount(active_connections) ELSE 0,
                        !.di_pos = IF F = NoFilter THEN 1 ELSE 0]
            IN \E n \in LoopHead(r) : bc' = [bc EXCEPT ![b] = n]
    /\ UNCHANGED <<active_connections, subscriptions, client_metadata,
                   nextClient, inbox, connCall, sends>>
    /\ UNCHANGED writerVars

\* mutant: a failed send removes the session from the registry
broadcastResumeDropsSession(b, outcome) ==
    /\ bc[b].status = "sending"
    /\ LET c == CHOOSE x \in bc[b].cur : TRUE
       IN IF outcome = "ok"
          THEN /\ inbox' = [inbox EXCEPT ![c] = Append(@, BcFrame(b))]
               /\ \E n \in LoopHead(bc[b]) : bc' = [bc EXCEPT ![b] = n]
               /\ UNCHANGED <<active_connections, subscriptions, client_metadata>>
          ELSE /\ inbox' = inbox
               /\ bc' = [bc EXCEPT ![b] = Finished(SendFailed(bc[b], c, outcome), "returned", "")]
               /\ subscriptions' = [k \in WellKnownKeys |-> subscriptions[k] \ {c}]
               /\ active_connections' = DictPop(active_connections, c)
               /\ client_metadata' = [client_metadata EXCEPT ![c] = NoMetadata]
    /\ UNCHANGED <<nextClient, connCall, sends>>
    /\ UNCHANGED writerVars

\* mutant: the frame is put in front of the frames already sent
broadcastResumePrepends(b, outcome) ==
    /\ bc[b].status = "sending"
    /\ LET c == CHOOSE x \in bc[b].cur : TRUE
       IN IF outcome = "ok"
          THEN /\ inbox' = [inbox EXCEPT ![c] = <<BcFrame(b)>> \o @]
               /\ \E n \in LoopHead(bc[b]) : bc' = [bc EXCEPT ![b] = n]
          ELSE /\ inbox' = inbox
               /\ \E n \in LoopHead(SendFailed(bc[b], c, outcome)) :
                     bc' = [bc EXCEPT ![b] = n]
    /\ UNCHANGED <<active_connections, subscriptions, client_metadata,
                   nextClient, connCall, sends>>
    /\ UNCHANGED writerVars

\* the awaited send_text ends; the loop goes on to the next await or the end
broadcastResume(b, outcome) ==
    /\ bc[b].status = "sending"
    /\ LET c == CHOOSE x \in bc[b].cur : TRUE
       IN IF outcome = "ok"
          THEN /\ inbox' = [inbox EXCEPT ![c] = Append(@, BcFrame(b))]
               /\ \E n \in LoopHead(bc[b]) : bc' = [bc EXCEPT ![b] = n]
          ELSE /\ inbox' = inbox
               /\ \E n \in LoopHead(SendFailed(bc[b], c, outcome)) :
                     bc' = [bc EXCEPT ![b] = n]
    /\ UNCHANGED <<active_connections, subscriptions, client_metadata,
                   nextClient, connCall, sends>>
    /\ UNCHANGED writerVars

(***************************************************************************)
(* The persistence writer (database_writer.py), the parser's conversation  *)
(* identity (jsonl_parser.py) and the orchestrator's event handler         *)
(* (file_monitor.py).  The handler and the writer are synchronous: one     *)
(* call runs at a time and every attempt of a backend step is one action.  *)
(***************************************************************************)
KnownProjects == 1..MaxProjects
\* uuid4(): an id no caller and no earlier parse has used
uuid4 == MaxProjects + nextUuid + 1

\* the n-th line of a transcript as the parser's ParsedMessage
Message(n) == [message_id |-> n, content |-> n]
Transcripts == {[n \in 1..len |-> Message(n)] : len \in 0..MaxMessages}

\* the files under the watched directory and their content
Paths == {"a.jsonl", "empty.jsonl", "notes.txt"}
EventTypes == {"created", "modified", "deleted", "moved"}
FileEvents == [event_type : EventTypes, src_path : Paths]
\* FileEvent is validated with use_enum_values=True: event_type holds the
\* member's value, a plain str, which has no attribute "value"
HasValueAttribute(event_type) == event_type \notin EventTypes
IsJsonl(path) == path \in {"a.jsonl", "empty.jsonl"}
FileLines(path) ==
    IF path = "a.jsonl" THEN [n \in 1..MaxMessages |-> Message(n)] ELSE <<>>
\* f"file_{hash(file_path)}": one value per path within a process
FileSessionId(path) ==
    CASE path = "a.jsonl" -> "file_hash(a.jsonl)"
      [] path = "empty.jsonl" -> "file_hash(empty.jsonl)"
      [] OTHER -> "file_hash(notes.txt)"

\* write_conversation() called by a component other than the orchestrator
Direct == [event_type |-> "", src_path |-> ""]
\* the ConversationData such a caller passes
Convs == [project_id : KnownProjects, session_id : {"s1"}, title : {""},
          messages : Transcripts]
NoConv == [project_id |-> 0, session_id |-> "", title |-> "", messages |-> <<>>]

\* how a round trip to the backend ends: data is returned; the backend
\* answers with an error (postgrest APIError, nothing applied); the statement
\* is applied and no row comes back; the transport fails before or after
\* the statement was applied (not an APIError)
SelectOutcomes == {"ok", "APIError"}
WriteOutcomes == {"ok", "APIError", "nodata", "Exception", "ExceptionApplied"}
BatchOutcomes == {"ok", "APIError", "Exception", "ExceptionApplied"}
\* the message of the APIError the backend answers attempt k with
BackendMessage(k) ==
    CASE k = 1 -> "backend error 1"
      [] k = 2 -> "backend error 2"
      [] OTHER -> "backend error 3"

NoStats == [conversations_written |-> 0, conversations_updated |-> 0,
            messages_written |-> 0, write_errors |-> 0]
NoMonitorStats == [files_processed |-> 0, conversations_created |-> 0,
                   processing_errors |-> 0]
\* log is history kept for the properties: one entry per attempt of a step
CallIdle == [pc |-> "idle", conv |-> NoConv, origin |-> Direct, attempt |-> 0,
             conversation_id |-> 0, log |-> <<>>, error_type |-> "",
             error_message |-> <<>>]

WriterInit ==
    /\ conversations = <<>>
    /\ messages = <<>>
    /\ stats = NoStats
    /\ monitor_stats = NoMonitorStats
    /\ total_samples = 0
    /\ nextUuid = 0
    /\ events = 0
    /\ escaped = 0
    /\ call = CallIdle
    /\ writes = <<>>

\* no endpoint coroutine has run
NoEndpoint == [kind |-> "none", loop |-> "none"]

EndpointInit ==
    /\ endpoint = [c \in ClientIds |-> NoEndpoint]
    /\ ws_closes = <<>>
    /\ received = [c \in ClientIds |-> <<>>]
    /\ published = <<>>

(***************************************************************************)
(* The orchestrator's lifecycle (FileMonitor.start and FileMonitor.stop of *)
(* file_monitor.py) and the watcher's event handler (ClaudeFileHandler of  *)
(* file_handler.py).  start() and stop() hold FileMonitor._lock for their  *)
(* whole body, so each call is one action; the observer thread dispatches  *)
(* one event at a time and the handler calls its callback synchronously,   *)
(* so each dispatch is one action.                                         *)
(***************************************************************************)
\* Path.home() / ".claude" / "projects", and another directory a monitor
\* can be constructed to watch
DefaultRoot == "~/.claude/projects"
WatchRoots == {DefaultRoot, "/srv/transcripts"}
\* the names, relative to the watched directory, that the observer reports
FileNames == {"a.jsonl", "B.JSONL", "notes.txt", "p1/c.jsonl"}
FsPaths == [root : WatchRoots, name : FileNames]
\* Path(...) if dest_path else None
NoPath == [root |-> "", name |-> ""]
\* Path.suffix
Suffix(name) ==
    CASE name = "a.jsonl" -> ".jsonl"
      [] name = "p1/c.jsonl" -> ".jsonl"
      [] name = "B.JSONL" -> ".JSONL"
      [] OTHER -> ".txt"
\* str.lower()
Lower(s) == IF s = ".JSONL" THEN ".jsonl" ELSE s
\* the events watchdog dispatches to the handler: a move carries its
\* destination, the other kinds carry none
WatchdogEvents(root) ==
    {e \in [event_type : EventTypes,
            src_path : {p \in FsPaths : p.root = root},
            dest_path : {p \in FsPaths : p.root = root} \cup {NoPath},
            is_directory : BOOLEAN] :
        (e.event_type = "moved") <=> (e.dest_path # NoPath)}
\* how the callback the handler was constructed with ends
SinkOutcomes == {"returns", "raises"}

\* no FileEvent: _create_file_event() returned None
NoEvent == [event_type |-> "", src_path |-> NoPath, dest_path |-> NoPath,
            is_directory |-> FALSE]

\* ProcessingError is a pydantic model (ContractBase), no exception class
ProcessingError(error_type, component) ==
    [class |-> "ProcessingError", error_type |-> error_type,
     component |-> component]
ExceptionClasses == {"Exception", "TypeError", "AttributeError"}
NoError == [class |-> "", error_type |-> "", component |-> ""]
\* the raise statement: an object whose class does not derive from
\* BaseException cannot be raised, the statement raises TypeError instead
Raise(error) ==
    IF error.class \in ExceptionClasses
    THEN error
    ELSE [class |-> "TypeError", error_type |-> "", component |-> ""]

StartOutcomes == {"ok", "mkdir_raises", "schedule_raises", "start_raises"}
StopOutcomes == {"joined", "timeout", "stop_raises", "join_raises"}
NoObserver == [serial |-> 0, thread |-> "none"]
NoDispatch == [n |-> 0, event |-> NoEvent, sink |-> "", emitted |-> FALSE]

\* FileMonitor(watch_path): the state after construction
FileMonitorInit(path, exists) ==
    /\ watch_path = path
    /\ root_exists = exists
    /\ running = FALSE
    /\ observer = NoObserver
    /\ calls = <<>>
    /\ dispatched = NoDispatch
    /\ delivered = <<>>
    /\ propagated = 0
    /\ abandoned = {}
    /\ late = <<>>

\* no ConversationData: the call returned a ProcessingError
NoConversation == [project_id |-> 0, session_id |-> "", message_count |-> 0,
                   messages |-> <<>>]
\* JSONLParser.stats after __init__ and after reset_stats()
NoParserStats == [lines_processed |-> 0, messages_parsed |-> 0,
                  parse_errors |-> 0, validation_errors |-> 0]
\* no parse_line() call has been made
NoLineCall ==
    [pc |-> "idle", error_type |-> "",
     line |-> [kind |-> "blank", sessionId |-> "", timestamp |-> 0,
               content |-> <<>>]]
\* no parse_conversation_file() call has been made
ParserIdle ==
    /\ file_path = ""
    /\ file = <<>>
    /\ parser_stats = NoParserStats
    /\ line_call = NoLineCall
    /\ parsed = [pc |-> "idle",
                 result |-> [error_type |-> "", conversation |-> NoConversation]]

\* the detection latencies of the samples, in ms: under, at and over the
\* threshold
Threshold == TicksPerMs * SLA_THRESHOLD_MS
Max(a, b) == IF a >= b THEN a ELSE b
Latencies == {1, Threshold, Threshold + 1}
\* time.time() at the reference point of time.perf_counter(), the boot of
\* the host, in units of 0.1 ms since the epoch; a real boot is later still
Boots == {2000000, 1000000000}
\* the time between detected_at and processing_start: none, 50 ms, just
\* over the threshold and 150 ms
Delays == {0, 500, Threshold + 1, 1500}
Clocks == [boot : Boots, delay : Delays]
\* time.perf_counter() when time.time() reads now
PerfCounter(now, c) == now - c.boot
\* FileEvent.detected_at of an event detected an hour after the boot
DetectedAt(c) == c.boot + 36000000
\* _handle_file_event: max(0.1, (processing_start -
\* file_event.detected_at.timestamp()) * 1000), processing_start being
\* time.perf_counter() when the handler was entered
DetectionLatency(c) ==
    Max(1, PerfCounter(DetectedAt(c) + c.delay, c) - DetectedAt(c))
\* PerformanceMetrics(detection_latency_ms, processing_latency_ms,
\* throughput_msgs_per_sec)
PerformanceMetrics(detection, processing, throughput) ==
    [detection_latency_ms |-> detection, processing_latency_ms |-> processing,
     throughput_msgs_per_sec |-> throughput]
Samples == {PerformanceMetrics(d, 5, 10) : d \in Latencies}
\* deque(maxlen=max_samples).append(x)
DequeAppend(q, x) ==
    IF Len(q) < MaxSamples THEN Append(q, x) ELSE Append(Tail(q), x)
\* PerformanceMonitor.stats after __init__ and after reset_stats()
NoPerfStats ==
    [total_samples |-> 0, sla_violations |-> 0,
     peak_detection_latency_ms |-> 0, peak_processing_latency_ms |-> 0,
     peak_throughput_msgs_per_sec |-> 0]
NoRecord == [pc |-> "idle", metrics |-> PerformanceMetrics(0, 0, 0)]
NoSummary == [pc |-> "idle", status |-> "", rate |-> <<0, 1>>, total |-> 0,
              sla_violations |-> 0, buffer_size |-> 0, n |-> 0, over |-> 0]
\* a monitor that has recorded nothing
PerfIdle ==
    /\ detection_latencies = <<>>
    /\ processing_latencies = <<>>
    /\ throughput_samples = <<>>
    /\ perf_stats = NoPerfStats
    /\ rec = NoRecord
    /\ summary = NoSummary
    /\ recorded = [n |-> 0, over |-> 0, calls |-> 0]
    /\ clocks = [boot |-> 1000000000, delay |-> 0]

\* MessagePriority.HIGH, NORMAL, LOW
Priorities == {1, 2, 3}
QueueClients == {"client1", "client2"}
\* PriorityMessage(content, priority, timestamp, client_id)
PriorityMessages == [priority : Priorities, client_id : QueueClients]
\* PriorityMessageQueue.__init__; a client without an entry maps to 0
QueueInit ==
    /\ queue = {}
    /\ entry_finder = [c \in QueueClients |-> 0]
    /\ counter = 0
    /\ dequeued = <<>>

\* a monitor constructed without a watch path, whose directory exists
Init ==
    /\ RegInit /\ WriterInit /\ EndpointInit
    /\ FileMonitorInit(DefaultRoot, TRUE)
    /\ ParserIdle
    /\ PerfIdle
    /\ QueueInit

\* history: the rows of the table that carry the conversation's key
KeyRows(conv) ==
    {i \in DOMAIN conversations :
        /\ conversations[i].project_id = conv.project_id
        /\ conversations[i].session_id = conv.session_id}

\* mutant: the lookup finds nothing
ExistingRecordNone(conv) == 0

\* select("id").eq("project_id", ..).eq("session_id", ..).limit(1): the id
\* of the row found, 0 for no row
ExistingRecord(conv) ==
    LET found == {i \in DOMAIN conversations :
                     /\ conversations[i].project_id = conv.project_id
                     /\ conversations[i].session_id = conv.session_id}
    IN IF found = {} THEN 0 ELSE conversations[MinOf(found)].id

\* the row an insert of the conversation payload creates
InsertedRow(conv) ==
    [id |-> Len(conversations) + 1, project_id |-> conv.project_id,
     session_id |-> conv.session_id, title |-> conv.title]
\* model_dump(exclude={"id", "message_id"}) with the foreign key set
MessagePayload(conversation_id, msg) ==
    [conversation_id |-> conversation_id, content |-> msg.content]
MessagesPayload(conversation_id, msgs) ==
    [n \in DOMAIN msgs |-> MessagePayload(conversation_id, msgs[n])]

Entry(step, op, present, existing, key, outcome, message) ==
    [step |-> step, op |-> op, present |-> present, existing |-> existing,
     key |-> key, outcome |-> outcome, message |-> message, slept |-> 0]

\* time.sleep(INITIAL_RETRY_DELAY_S * (2**attempt)), in milliseconds
Backoff(attempt) == INITIAL_RETRY_DELAY_MS * (2 ^ attempt)

\* mutant: one attempt more than MAX_RETRIES
OnAPIErrorOneMore(c, entry, prefix) ==
    IF c.attempt + 1 > MAX_RETRIES
    THEN [c EXCEPT !.pc = "raised", !.log = Append(@, entry),
                   !.error_type = "DatabaseError",
                   !.error_message = <<prefix, entry.message>>]
    ELSE [c EXCEPT !.attempt = @ + 1,
                   !.log = Append(@, [entry EXCEPT !.slept = Backoff(c.attempt)])]

\* except APIError: the last attempt raises DatabaseWriterError, an earlier
\* one sleeps and the loop goes round
OnAPIError(c, entry, prefix) ==
    IF c.attempt + 1 >= MAX_RETRIES
    THEN [c EXCEPT !.pc = "raised", !.log = Append(@, entry),
                   !.error_type = "DatabaseError",
                   !.error_message = <<prefix, entry.message>>]
    ELSE [c EXCEPT !.attempt = @ + 1,
                   !.log = Append(@, [entry EXCEPT !.slept = Backoff(c.attempt)])]

\* except Exception in write_conversation: no retry
OnException(c, entry) ==
    [c EXCEPT !.pc = "raised", !.log = Append(@, entry),
              !.error_type = "UnexpectedDatabaseError",
              !.error_message = <<"Unexpected error writing conversation: ",
                                  entry.message>>]

\* the step returns: the next step starts with attempt 0
Succeed(c, entry, id, next) ==
    [c EXCEPT !.pc = next, !.attempt = 0, !.conversation_id = id,
              !.log = Append(@, entry)]

Summary(c, st, convs, msgs) ==
    [conv |-> c.conv, origin |-> c.origin, ok |-> (c.pc = "returned"),
     id |-> c.conversation_id, stats |-> st, convs |-> convs, rows |-> msgs]

\* the end of an attempt: the tables and counters as the attempt left them
\* and, when write_conversation() has returned or raised, what its caller
\* does with the result
Settle(c, convs, msgs, st) ==
    LET raised == c.pc = "raised"
        returned == c.pc = "returned"
        st2 == IF raised THEN [st EXCEPT !.write_errors = @ + 1] ELSE st
        byMonitor == c.origin # Direct
    IN /\ call' = c
       /\ conversations' = convs
       /\ messages' = msgs
       /\ stats' = st2
       /\ writes' = IF raised \/ returned
                    THEN Append(writes, Summary(c, st2, convs, msgs))
                    ELSE writes
       /\ monitor_stats' =
             IF byMonitor /\ returned
             THEN [monitor_stats EXCEPT !.files_processed = @ + 1,
                                        !.conversations_created = @ + 1]
             ELSE IF byMonitor /\ raised
             THEN [monitor_stats EXCEPT !.processing_errors = @ + 1]
             ELSE monitor_stats
       /\ total_samples' = IF byMonitor /\ returned
                           THEN total_samples + 1 ELSE total_samples
       \* self.performance_monitor.record_metrics(metrics)
       /\ IF byMonitor /\ returned
          THEN LET detection == DetectionLatency(clocks)
               IN /\ detection_latencies' =
                        DequeAppend(detection_latencies, detection)
                  /\ processing_latencies' =
                        DequeAppend(processing_latencies, 5)
                  /\ throughput_samples' = DequeAppend(throughput_samples, 10)
                  /\ perf_stats' =
                        [total_samples |-> perf_stats.total_samples + 1,
                         sla_violations |->
                             IF detection > Threshold
                             THEN perf_stats.sla_violations + 1
                             ELSE perf_stats.sla_violations,
                         peak_detection_latency_ms |->
                             Max(perf_stats.peak_detection_latency_ms,
                                 detection),
                         peak_processing_latency_ms |->
                             Max(perf_stats.peak_processing_latency_ms, 5),
                         peak_throughput_msgs_per_sec |->
                             Max(perf_stats.peak_throughput_msgs_per_sec, 10)]
                  /\ recorded' =
                        [n |-> recorded.n + 1,
                         over |-> IF detection > Threshold
                                  THEN recorded.over + 1 ELSE recorded.over,
                         calls |-> recorded.calls + 1]
          ELSE UNCHANGED <<detection_latencies, processing_latencies,
                           throughput_samples, perf_stats, recorded>>
       /\ UNCHANGED <<rec, summary, clocks>>
       \* except Exception in _handle_file_event: after the counter, the
       \* handler builds its error record from file_event.event_type.value
       /\ escaped' = IF byMonitor /\ raised /\ ~HasValueAttribute(c.origin.event_type)
                     THEN escaped + 1 ELSE escaped
       /\ UNCHANGED <<nextUuid, events>>
       /\ UNCHANGED regVars

Quiet == call.pc \in {"idle", "returned", "raised"}

(***************************************************************************)
(* write_conversation(conversation_data), entered by a direct caller.      *)
(***************************************************************************)
write_conversation(conv) ==
    /\ Quiet
    /\ Len(writes) < MaxWrites
    /\ call' = [CallIdle EXCEPT !.pc = "record", !.conv = conv]
    /\ UNCHANGED <<conversations, messages, stats, monitor_stats,
                   total_samples, nextUuid, events, escaped, writes>>
    /\ UNCHANGED <<regVars, perfVars>>

\* mutant: a file without a valid message is parsed into a conversation
parse_conversation_fileAcceptsEmpty(path) ==
    [error_type |-> "",
     conv |-> [project_id |-> uuid4, session_id |-> FileSessionId(path),
               title |-> path, messages |-> FileLines(path)]]

(***************************************************************************)
(* parse_conversation_file(file_path): a fresh project id for every parse, *)
(* the session id from the path, one message per line.                     *)
(***************************************************************************)
parse_conversation_file(path) ==
    IF FileLines(path) = <<>>
    THEN [error_type |-> "EmptyFile", conv |-> NoConv]
    ELSE [error_type |-> "",
          conv |-> [project_id |-> uuid4, session_id |-> FileSessionId(path),
                    title |-> path, messages |-> FileLines(path)]]

\* _handle_file_event without the test of the event type
handle_file_eventAnyKind(ev) ==
    /\ Quiet
    /\ events < MaxEvents
    /\ Len(writes) < MaxWrites
    /\ events' = events + 1
    /\ IF ~IsJsonl(ev.src_path)
       THEN UNCHANGED <<call, nextUuid, monitor_stats>>
       ELSE LET result == parse_conversation_file(ev.src_path)
            IN /\ nextUuid' = nextUuid + 1
               /\ IF result.error_type # ""
                  THEN /\ monitor_stats' =
                            [monitor_stats EXCEPT !.processing_errors = @ + 1]
                       /\ UNCHANGED call
                  ELSE /\ call' = [CallIdle EXCEPT !.pc = "record",
                                                   !.conv = result.conv,
                                                   !.origin = ev]
                       /\ UNCHANGED monitor_stats
    /\ UNCHANGED <<conversations, messages, stats, total_samples, escaped, writes>>
    /\ UNCHANGED <<regVars, perfVars>>

(***************************************************************************)
(* _handle_file_event(file_event) up to the call of write_conversation();  *)
(* the rest of the handler runs when the write returns or raises (Settle). *)
(***************************************************************************)
handle_file_event(ev) ==
    /\ Quiet
    /\ events < MaxEvents
    /\ Len(writes) < MaxWrites
    /\ events' = events + 1
    /\ IF ev.event_type \notin {"modified", "created"} \/ ~IsJsonl(ev.src_path)
       THEN UNCHANGED <<call, nextUuid, monitor_stats>>
       ELSE LET result == parse_conversation_file(ev.src_path)
            IN /\ nextUuid' = nextUuid + 1
               /\ IF result.error_type # ""
                  THEN /\ monitor_stats' =
                            [monitor_stats EXCEPT !.processing_errors = @ + 1]
                       /\ UNCHANGED call
                  ELSE /\ call' = [CallIdle EXCEPT !.pc = "record",
                                                   !.conv = result.conv,
                                                   !.origin = ev]
                       /\ UNCHANGED monitor_stats
    /\ UNCHANGED <<conversations, messages, stats, total_samples, escaped, writes>>
    /\ UNCHANGED <<regVars, perfVars>>

(***************************************************************************)
(* _write_conversation_record: one pass of the retry loop, the lookup and  *)
(* the UPDATE or INSERT it leads to.                                       *)
(***************************************************************************)
write_conversation_record(sel, wr) ==
    /\ call.pc = "record"
    /\ LET k == call.attempt + 1
           present == KeyRows(call.conv) # {}
           existing == ExistingRecord(call.conv)
           row == InsertedRow(call.conv)
           next == IF call.conv.messages # <<>> THEN "messages" ELSE "returned"
           prefix == "Failed to write conversation: "
       IN IF sel = "APIError"
          THEN Settle(OnAPIError(call, Entry("record", "select", present, 0, 0,
                                             "APIError", BackendMessage(k)), prefix),
                      conversations, messages, stats)
          ELSE IF existing # 0
          THEN CASE wr = "ok" ->
                      Settle(Succeed(call, Entry("record", "update", present, existing,
                                                 existing, "ok", ""), existing, next),
                             conversations, messages,
                             [stats EXCEPT !.conversations_updated = @ + 1])
                 [] wr = "APIError" ->
                      Settle(OnAPIError(call, Entry("record", "update", present, existing,
                                                    existing, "APIError",
                                                    BackendMessage(k)), prefix),
                             conversations, messages, stats)
                 [] wr = "nodata" ->
                      Settle(OnAPIError(call, Entry("record", "update", present, existing,
                                                    existing, "APIError",
                                                    "Update operation returned no data"),
                                        prefix),
                             conversations, messages, stats)
                 [] OTHER ->
                      Settle(OnException(call, Entry("record", "update", present, existing,
                                                     existing, "Exception",
                                                     "connection lost")),
                             conversations, messages, stats)
          ELSE CASE wr = "ok" ->
                      Settle(Succeed(call, Entry("record", "insert", present, 0, row.id,
                                                 "ok", ""), row.id, next),
                             Append(conversations, row), messages,
                             [stats EXCEPT !.conversations_written = @ + 1])
                 [] wr = "APIError" ->
                      Settle(OnAPIError(call, Entry("record", "insert", present, 0, 0,
                                                    "APIError", BackendMessage(k)),
                                        prefix),
                             conversations, messages, stats)
                 [] wr = "nodata" ->
                      Settle(OnAPIError(call, Entry("record", "insert", present, 0, row.id,
                                                    "APIError",
                                                    "Insert operation returned no data"),
                                        prefix),
                             Append(conversations, row), messages, stats)
                 [] wr = "Exception" ->
                      Settle(OnException(call, Entry("record", "insert", present, 0, 0,
                                                     "Exception", "connection lost")),
                             conversations, messages, stats)
                 [] OTHER ->
                      Settle(OnException(call, Entry("record", "insert", present, 0, row.id,
                                                     "Exception", "connection lost")),
                             Append(conversations, row), messages, stats)

(***************************************************************************)
(* _batch_upsert_messages: one pass of the retry loop, the INSERT of the   *)
(* whole batch; write_conversation() counts the messages when it returns.  *)
(***************************************************************************)
batch_upsert_messages(outcome) ==
    /\ call.pc = "messages"
    /\ LET k == call.attempt + 1
           payload == MessagesPayload(call.conversation_id, call.conv.messages)
           prefix == "Failed to batch upsert messages: "
       IN CASE outcome = "ok" ->
                 Settle(Succeed(call, Entry("messages", "insert", FALSE, 0, 0, "ok", ""),
                                call.conversation_id, "returned"),
                        conversations, messages \o payload,
                        [stats EXCEPT !.messages_written =
                                         @ + Len(call.conv.messages)])
            [] outcome = "APIError" ->
                 Settle(OnAPIError(call, Entry("messages", "insert", FALSE, 0, 0,
                                               "APIError", BackendMessage(k)), prefix),
                        conversations, messages, stats)
            [] outcome = "Exception" ->
                 Settle(OnException(call, Entry("messages", "insert", FALSE, 0, 0,
                                                "Exception", "connection lost")),
                        conversations, messages, stats)
            [] OTHER ->
                 Settle(OnException(call, Entry("messages", "insert", FALSE, 0, 0,
                                                "Exception", "connection lost")),
                        conversations, messages \o payload, stats)

Minted == 1..(nextClient - 1)

\* accept, disconnect and any number of concurrent broadcasts
RegNext ==
    \/ \E subs \in SubChoices : connect(subs)
          /\ UNCHANGED <<epVars, lifeVars, parserVars, perfVars, queueVars>>
    \/ \E c \in ClientIds, o \in SendOutcomes : connectResume(c, o)
          /\ UNCHANGED <<epVars, lifeVars, parserVars, perfVars, queueVars>>
    \/ \E c \in ClientIds : disconnect(c)
          /\ UNCHANGED <<epVars, lifeVars, parserVars, perfVars, queueVars>>
    \/ \E b \in Bcasts, F \in Filters, ok \in BOOLEAN : broadcast(b, F, ok)
          /\ UNCHANGED <<epVars, lifeVars, parserVars, perfVars, queueVars>>
    \/ \E b \in Bcasts, o \in SendOutcomes : broadcastResume(b, o)
          /\ UNCHANGED <<epVars, lifeVars, parserVars, perfVars, queueVars>>

Spec == Init /\ [][RegNext]_vars

\* accept, disconnect, send and the broadcasts of one producer
SendNext ==
    \/ \E subs \in SubChoices : connect(subs)
          /\ UNCHANGED <<epVars, lifeVars, parserVars, perfVars, queueVars>>
    \/ \E c \in ClientIds, o \in SendOutcomes : connectResume(c, o)
          /\ UNCHANGED <<epVars, lifeVars, parserVars, perfVars, queueVars>>
    \/ \E c \in ClientIds : disconnect(c)
          /\ UNCHANGED <<epVars, lifeVars, parserVars, perfVars, queueVars>>
    \/ \E c \in ClientIds, o \in SendOutcomes : send_to_client(c, o)
          /\ UNCHANGED <<epVars, lifeVars, parserVars, perfVars, queueVars>>
    \/ \E F \in Filters, ok \in BOOLEAN : broadcast(1, F, ok)
          /\ UNCHANGED <<epVars, lifeVars, parserVars, perfVars, queueVars>>
    \/ \E o \in SendOutcomes : broadcastResume(1, o)
          /\ UNCHANGED <<epVars, lifeVars, parserVars, perfVars, queueVars>>

SendSpec == Init /\ [][SendNext]_vars

\* one producer that awaits each of its send and broadcast calls before it
\* makes the next
ProducerIdle == \A b \in Bcasts : bc[b].status # "sending"

SeqNext ==
    \/ \E subs \in SubChoices : connect(subs)
          /\ UNCHANGED <<epVars, lifeVars, parserVars, perfVars, queueVars>>
    \/ \E c \in ClientIds, o \in SendOutcomes : connectResume(c, o)
          /\ UNCHANGED <<epVars, lifeVars, parserVars, perfVars, queueVars>>
    \/ \E c \in ClientIds : disconnect(c)
          /\ UNCHANGED <<epVars, lifeVars, parserVars, perfVars, queueVars>>
    \/ \E c \in ClientIds, o \in SendOutcomes :
          ProducerIdle /\ send_to_client(c, o)
          /\ UNCHANGED <<epVars, lifeVars, parserVars, perfVars, queueVars>>
    \/ \E b \in Bcasts, F \in {NoFilter, "file_events"} :
          ProducerIdle /\ broadcast(b, F, TRUE)
          /\ UNCHANGED <<epVars, lifeVars, parserVars, perfVars, queueVars>>
    \/ \E b \in Bcasts, o \in SendOutcomes : broadcastResume(b, o)
          /\ UNCHANGED <<epVars, lifeVars, parserVars, perfVars, queueVars>>

SeqSpec == Init /\ [][SeqNext]_vars

(***************************************************************************)
(* The endpoint coroutines: websocket_endpoint of endpoints.py (route /ws, *)
(* kind "ws") and websocket_endpoint of websocket_handler.py (kind         *)
(* "handler").  Both keep their sessions in a ConnectionManager; the kind  *)
(* tells the sessions of the two apart.                                    *)
(***************************************************************************)
\* the token query parameter, and how get_supabase_client() and
\* validate_websocket_token(token, client) end
Tokens == {"absent", "present"}
AuthOutcomes == {"user_info", "AuthenticationError", "Exception"}
\* extract_user_info(): the dict that /ws passes to connect() in the place of
\* subscriptions; iterating it yields its keys
UserInfo == <<"user_id", "email", "role", "aud", "exp", "iat", "iss">>
\* the client_id argument of the handler endpoint, which it passes to
\* connect() in the place of subscriptions: None, or a string, whose
\* iteration yields its characters
HandlerClientIds == {"<None>", "c1"}
HandlerSubscriptions(client_id) ==
    IF client_id = "<None>" THEN <<>> ELSE <<"c", "1">>

\* mutant: every failure of the authentication is a policy violation
HandshakeClosePolicyOnly(token, auth) ==
    IF token = "absent"
    THEN [code |-> 1008, reason |-> "Authentication required"]
    ELSE IF auth \in {"AuthenticationError", "Exception"}
    THEN [code |-> 1008, reason |-> "Authentication failed"]
    ELSE [code |-> 0, reason |-> ""]

\* websocket.close(code, reason) before accept; code 0 for no close
HandshakeClose(token, auth) ==
    IF token = "absent"
    THEN [code |-> 1008, reason |-> "Authentication required"]
    ELSE IF auth = "AuthenticationError"
    THEN [code |-> 1008, reason |-> "Authentication failed"]
    ELSE IF auth = "Exception"
    THEN [code |-> 1011, reason |-> "Authentication service error"]
    ELSE [code |-> 0, reason |-> ""]

\* /ws up to the await inside connect(): the token check, the
\* authentication, then close and return, or connect(websocket, user_info)
ws_handshake(token, auth) ==
    LET close == HandshakeClose(token, auth)
    IN IF close.code # 0
       THEN /\ Len(ws_closes) < MaxRejects
            /\ ws_closes' = Append(ws_closes,
                                   [token |-> token, auth |-> auth,
                                    code |-> close.code, reason |-> close.reason])
            /\ UNCHANGED <<endpoint, received, published, regVars, writerVars>>
       ELSE /\ connect(UserInfo)
            /\ endpoint' = [endpoint EXCEPT ![nextClient] =
                                [kind |-> "ws", loop |-> "receiving"]]
            /\ UNCHANGED <<ws_closes, received, published>>

\* /ws: receive_text raises WebSocketDisconnect or another exception; the
\* finally clause disconnects the client id that connect() returned
ws_receive_ends(c, how) ==
    /\ endpoint[c] = [kind |-> "ws", loop |-> "receiving"]
    /\ connCall[c] = "returned"
    /\ disconnect(c)
    /\ endpoint' = [endpoint EXCEPT ![c].loop = "returned"]
    /\ UNCHANGED <<ws_closes, received, published>>

\* the handler endpoint up to the await inside connect():
\* connect(websocket, client_id); the id that connect() mints is dropped
handler_endpoint(client_id) ==
    /\ connect(HandlerSubscriptions(client_id))
    /\ endpoint' = [endpoint EXCEPT ![nextClient] =
                        [kind |-> "handler", loop |-> "receiving"]]
    /\ UNCHANGED <<ws_closes, received, published>>

\* the handler endpoint: receive_text raises.  On WebSocketDisconnect it
\* calls disconnect(client_id) with its own argument, which is no key of the
\* table, and awaits the None that the synchronous disconnect returns
\* (TypeError); any other exception leaves the coroutine at once
handler_receive_ends(c, how) ==
    /\ endpoint[c] = [kind |-> "handler", loop |-> "receiving"]
    /\ connCall[c] = "returned"
    /\ endpoint' = [endpoint EXCEPT ![c].loop = "raised"]
    /\ UNCHANGED <<ws_closes, received, published, regVars, writerVars>>

ReceiveEnds == {"WebSocketDisconnect", "Exception"}

EndpointNext ==
    \/ \E token \in Tokens, auth \in AuthOutcomes : ws_handshake(token, auth)
          /\ UNCHANGED <<lifeVars, parserVars, perfVars, queueVars>>
    \/ \E c \in ClientIds, how \in ReceiveEnds : ws_receive_ends(c, how)
          /\ UNCHANGED <<lifeVars, parserVars, perfVars, queueVars>>
    \/ \E client_id \in HandlerClientIds : handler_endpoint(client_id)
          /\ UNCHANGED <<lifeVars, parserVars, perfVars, queueVars>>
    \/ \E c \in ClientIds, how \in ReceiveEnds : handler_receive_ends(c, how)
          /\ UNCHANGED <<lifeVars, parserVars, perfVars, queueVars>>
    \/ \E c \in ClientIds, o \in SendOutcomes :
          connectResume(c, o) /\ UNCHANGED <<epVars, lifeVars, parserVars, perfVars, queueVars>>

EndpointSpec == Init /\ [][EndpointNext]_vars

\* the text frames a peer sends: {"type": "ping"}, JSON of another type,
\* and text that is not JSON
Frames == {"ping", "unknown", "malformed"}
PongFrame == [type |-> "pong", id |-> 0]
ErrorFrame == [type |-> "unsupported message type", id |-> 0]
\* handle_websocket_message(message, connection_id): the dict it returns
handle_websocket_message(frame) ==
    IF frame = "ping" THEN PongFrame ELSE ErrorFrame

\* /ws: receive_text returns a frame; the loop drops it and goes round
ws_receive(c, frame) ==
    /\ endpoint[c] = [kind |-> "ws", loop |-> "receiving"]
    /\ connCall[c] = "returned"
    /\ Len(received[c]) < MaxFrames
    /\ received' = [received EXCEPT ![c] = Append(@, frame)]
    /\ UNCHANGED <<endpoint, ws_closes, published, regVars, writerVars>>

\* the handler endpoint: receive_text returns a frame; json.loads raises
\* JSONDecodeError, which is passed over, or handle_websocket_message is
\* awaited and the dict it returns is dropped; nothing is sent
handler_receive(c, frame) ==
    /\ endpoint[c] = [kind |-> "handler", loop |-> "receiving"]
    /\ connCall[c] = "returned"
    /\ Len(received[c]) < MaxFrames
    /\ received' = [received EXCEPT ![c] = Append(@, frame)]
    /\ LET reply == IF frame = "malformed"
                    THEN <<>>
                    ELSE <<handle_websocket_message(frame)>>
       IN inbox' = inbox
    /\ UNCHANGED <<active_connections, subscriptions, client_metadata,
                   nextClient, connCall, bc, sends>>
    /\ UNCHANGED <<endpoint, ws_closes, published, writerVars>>

LoopNext ==
    \/ ws_handshake("present", "user_info")
          /\ UNCHANGED <<lifeVars, parserVars, perfVars, queueVars>>
    \/ \E client_id \in HandlerClientIds : handler_endpoint(client_id)
          /\ UNCHANGED <<lifeVars, parserVars, perfVars, queueVars>>
    \/ \E c \in ClientIds, o \in SendOutcomes :
          connectResume(c, o) /\ UNCHANGED <<epVars, lifeVars, parserVars, perfVars, queueVars>>
    \/ \E c \in ClientIds, frame \in Frames : ws_receive(c, frame)
          /\ UNCHANGED <<lifeVars, parserVars, perfVars, queueVars>>
    \/ \E c \in ClientIds, frame \in Frames : handler_receive(c, frame)
          /\ UNCHANGED <<lifeVars, parserVars, perfVars, queueVars>>
    \/ \E c \in ClientIds, how \in ReceiveEnds : ws_receive_ends(c, how)
          /\ UNCHANGED <<lifeVars, parserVars, perfVars, queueVars>>
    \/ \E c \in ClientIds, how \in ReceiveEnds : handler_receive_ends(c, how)
          /\ UNCHANGED <<lifeVars, parserVars, perfVars, queueVars>>

\* the two endpoints with peers that send frames
LoopSpec == Init /\ [][LoopNext]_vars

\* the sessions of websocket_handler.connection_manager, the registry that
\* websocket_handler.py builds for itself; /ws registers its sessions in
\* connection_manager.connection_manager
HandlerSessions ==
    {c \in Keys(active_connections) : endpoint[c].kind = "handler"}
WsSessions ==
    {c \in Keys(active_connections) : endpoint[c].kind = "ws"}

\* connection_manager.broadcast(message, subscription_filter=F) as the
\* broadcast_* functions of websocket_handler.py call it, up to its first
\* await: the sessions it can reach are those of the handler's registry
HandlerBroadcast(b, F) ==
    /\ bc[b].status = "idle"
    /\ \A a \in Bcasts : a < b => bc[a].status # "idle"
    /\ LET r == [BcIdle EXCEPT
                   !.filter = F,
                   !.addressed = Addressed(F) \cap HandlerSessions,
                   !.pending = TargetClients(F) \cap HandlerSessions]
       IN \E n \in LoopHead(r) : bc' = [bc EXCEPT ![b] = n]
    /\ published' =
           Append(published, [b |-> b, filter |-> F,
                              registry |-> HandlerSessions,
                              ws_sessions |-> WsSessions])
    /\ UNCHANGED <<active_connections, subscriptions, client_metadata,
                   nextClient, inbox, connCall, sends>>
    /\ UNCHANGED <<endpoint, ws_closes, received, writerVars>>

\* f"project:{project_id}"
ProjectFilter(project_id) == "project:p1"

broadcast_conversation_update(b, project_id) ==
    HandlerBroadcast(b, ProjectFilter(project_id))

broadcast_file_monitoring_update(b) == HandlerBroadcast(b, "file_events")

PublishNext ==
    \/ ws_handshake("present", "user_info")
          /\ UNCHANGED <<lifeVars, parserVars, perfVars, queueVars>>
    \/ \E client_id \in HandlerClientIds : handler_endpoint(client_id)
          /\ UNCHANGED <<lifeVars, parserVars, perfVars, queueVars>>
    \/ \E c \in ClientIds, o \in SendOutcomes :
          connectResume(c, o) /\ UNCHANGED <<epVars, lifeVars, parserVars, perfVars, queueVars>>
    \/ \E b \in Bcasts : broadcast_conversation_update(b, "p1")
          /\ UNCHANGED <<lifeVars, parserVars, perfVars, queueVars>>
    \/ \E b \in Bcasts : broadcast_file_monitoring_update(b)
          /\ UNCHANGED <<lifeVars, parserVars, perfVars, queueVars>>
    \/ \E b \in Bcasts, o \in SendOutcomes :
          broadcastResume(b, o) /\ UNCHANGED <<epVars, lifeVars, parserVars, perfVars, queueVars>>

\* the endpoints and the producers that publish through websocket_handler.py
PublishSpec == Init /\ [][PublishNext]_vars

\* the writer and the orchestrator that feeds it
WriterNext ==
    \/ \E conv \in Convs : write_conversation(conv)
          /\ UNCHANGED <<epVars, lifeVars, parserVars, queueVars>>
    \/ \E ev \in FileEvents : handle_file_event(ev)
          /\ UNCHANGED <<epVars, lifeVars, parserVars, queueVars>>
    \/ \E sel \in SelectOutcomes, wr \in WriteOutcomes :
          write_conversation_record(sel, wr)
          /\ UNCHANGED <<epVars, lifeVars, parserVars, queueVars>>
    \/ \E outcome \in BatchOutcomes : batch_upsert_messages(outcome)
          /\ UNCHANGED <<epVars, lifeVars, parserVars, queueVars>>

WriterSpec == Init /\ [][WriterNext]_vars

\* an orchestrator on a host whose clocks are any of Clocks
LatencyInit ==
    /\ RegInit /\ WriterInit /\ EndpointInit
    /\ FileMonitorInit(DefaultRoot, TRUE)
    /\ ParserIdle
    /\ QueueInit
    /\ detection_latencies = <<>>
    /\ processing_latencies = <<>>
    /\ throughput_samples = <<>>
    /\ perf_stats = NoPerfStats
    /\ rec = NoRecord
    /\ summary = NoSummary
    /\ recorded = [n |-> 0, over |-> 0, calls |-> 0]
    /\ clocks \in Clocks

LatencyNext ==
    \/ \E ev \in FileEvents : handle_file_event(ev)
          /\ UNCHANGED <<epVars, lifeVars, parserVars, queueVars>>
    \/ \E sel \in SelectOutcomes, wr \in WriteOutcomes :
          write_conversation_record(sel, wr)
          /\ UNCHANGED <<epVars, lifeVars, parserVars, queueVars>>
    \/ \E outcome \in BatchOutcomes : batch_upsert_messages(outcome)
          /\ UNCHANGED <<epVars, lifeVars, parserVars, queueVars>>

\* the orchestrator as the only caller of the writer and of the monitor
LatencySpec == LatencyInit /\ [][LatencyNext]_vars

(***************************************************************************)
(* FileMonitor.start(): a warning and nothing else on a running monitor;   *)
(* otherwise the watch directory is created if it is missing, a new        *)
(* Observer is built, scheduled and started, and the running flag is set.  *)
(* An exception of any of these steps is answered by raising a             *)
(* ProcessingError("StartupError").                                        *)
(***************************************************************************)
\* mutant: start() does not look at the running flag
startUnguarded(outcome) ==
    /\ Len(calls) < MaxCalls
    /\ outcome = "mkdir_raises" => ~root_exists
    /\ root_exists' = (root_exists \/ outcome # "mkdir_raises")
    /\ observer' =
          IF outcome = "mkdir_raises"
          THEN observer
          ELSE [serial |-> observer.serial + 1,
                thread |-> IF outcome = "ok" THEN "alive" ELSE "new"]
    /\ running' = (outcome = "ok")
    /\ calls' = Append(calls,
          [op |-> "start", outcome |-> outcome, mkdir |-> ~root_exists,
           raised |-> IF outcome = "ok" THEN NoError
                      ELSE Raise(ProcessingError("StartupError", "FileMonitor"))])
    /\ UNCHANGED <<watch_path, dispatched, delivered, propagated, abandoned,
                   late>>
    /\ UNCHANGED <<regVars, writerVars, epVars, parserVars, perfVars, queueVars>>

start(outcome) ==
    /\ Len(calls) < MaxCalls
    /\ outcome = "mkdir_raises" => ~root_exists
    /\ IF running
       THEN /\ calls' = Append(calls, [op |-> "start", outcome |-> "warning",
                                       mkdir |-> FALSE, raised |-> NoError])
            /\ UNCHANGED <<root_exists, running, observer>>
       ELSE /\ root_exists' = (root_exists \/ outcome # "mkdir_raises")
            /\ observer' =
                  IF outcome = "mkdir_raises"
                  THEN observer
                  ELSE [serial |-> observer.serial + 1,
                        thread |-> IF outcome = "ok" THEN "alive" ELSE "new"]
            /\ running' = (outcome = "ok")
            /\ calls' = Append(calls,
                  [op |-> "start", outcome |-> outcome, mkdir |-> ~root_exists,
                   raised |-> IF outcome = "ok" THEN NoError
                              ELSE Raise(ProcessingError("StartupError",
                                                         "FileMonitor"))])
    /\ UNCHANGED <<watch_path, dispatched, delivered, propagated, abandoned,
                   late>>
    /\ UNCHANGED <<regVars, writerVars, epVars, parserVars, perfVars, queueVars>>

(***************************************************************************)
(* FileMonitor.stop(): a warning and nothing else on a monitor that is not *)
(* running; otherwise observer.stop(), observer.join(timeout=5.0), then    *)
(* the running flag is cleared.  An exception of stop() or join() skips    *)
(* the assignment and is answered by raising a                             *)
(* ProcessingError("ShutdownError").                                       *)
(***************************************************************************)
stop(how) ==
    /\ Len(calls) < MaxCalls
    /\ IF ~running
       THEN /\ calls' = Append(calls, [op |-> "stop", outcome |-> "warning",
                                       mkdir |-> FALSE, raised |-> NoError])
            /\ UNCHANGED <<running, observer>>
       ELSE /\ observer' =
                  IF observer.serial = 0
                  THEN observer
                  ELSE [observer EXCEPT !.thread =
                            CASE how = "joined" -> "joined"
                              [] how = "timeout" -> "abandoned"
                              [] how = "join_raises" -> "stopping"
                              [] OTHER -> @]
            /\ running' = (how \in {"stop_raises", "join_raises"})
            /\ calls' = Append(calls,
                  [op |-> "stop", outcome |-> how, mkdir |-> FALSE,
                   raised |-> IF how \in {"joined", "timeout"} THEN NoError
                              ELSE Raise(ProcessingError("ShutdownError",
                                                         "FileMonitor"))])
    /\ abandoned' = IF running /\ how = "timeout" /\ observer.serial # 0
                    THEN abandoned \cup {observer.serial}
                    ELSE abandoned
    /\ UNCHANGED <<watch_path, root_exists, dispatched, delivered, propagated,
                   late>>
    /\ UNCHANGED <<regVars, writerVars, epVars, parserVars, perfVars, queueVars>>

(***************************************************************************)
(* ClaudeFileHandler.                                                      *)
(***************************************************************************)
\* _is_relevant_file(file_path): the lowered suffix is ".jsonl" and the path
\* is relative to Path.home()/.claude/projects
is_relevant_file(path) ==
    /\ Lower(Suffix(path.name)) = ".jsonl"
    /\ path.root = DefaultRoot

\* _create_file_event(): the FileEvent, or None when the model's validator
\* rejects a move without destination or a destination without move
create_file_event(event_type, src_path, dest_path, is_directory) ==
    IF (event_type = "moved") # (dest_path # NoPath)
    THEN NoEvent
    ELSE [event_type |-> event_type, src_path |-> src_path,
          dest_path |-> dest_path, is_directory |-> is_directory]

\* one event taken from the observer's queue by its thread: the on_* method
\* decides with relevant whether it builds a FileEvent and calls
\* _handle_event(), which calls the callback; when the callback raises, the
\* except clause reads file_event.event_type.value, and the AttributeError
\* of that read leaves _handle_event(), the on_* method and the thread's loop
Dispatch(event, relevant, sink) ==
    LET file_event ==
            IF relevant
            THEN create_file_event(event.event_type, event.src_path,
                                   event.dest_path, event.is_directory)
            ELSE NoEvent
        escapes == /\ file_event # NoEvent
                   /\ sink = "raises"
                   /\ ~HasValueAttribute(file_event.event_type)
    IN /\ observer.thread = "alive"
       /\ dispatched.n < MaxDispatches
       /\ event \in WatchdogEvents(watch_path)
       /\ dispatched' = [n |-> dispatched.n + 1, event |-> event,
                         sink |-> IF file_event = NoEvent THEN "" ELSE sink,
                         emitted |-> file_event # NoEvent]
       /\ delivered' = IF file_event = NoEvent THEN delivered
                       ELSE Append(delivered, file_event)
       /\ propagated' = IF escapes THEN propagated + 1 ELSE propagated
       /\ observer' = IF escapes THEN [observer EXCEPT !.thread = "dead"]
                      ELSE observer
       /\ UNCHANGED <<watch_path, root_exists, running, calls, abandoned,
                      late>>
       /\ UNCHANGED <<regVars, writerVars, epVars, parserVars, perfVars, queueVars>>

on_created(event, sink) ==
    /\ event.event_type = "created"
    /\ Dispatch(event,
                ~event.is_directory /\ is_relevant_file(event.src_path), sink)

on_deleted(event, sink) ==
    /\ event.event_type = "deleted"
    /\ Dispatch(event,
                ~event.is_directory /\ is_relevant_file(event.src_path), sink)

on_modified(event, sink) ==
    /\ event.event_type = "modified"
    /\ Dispatch(event,
                ~event.is_directory /\ is_relevant_file(event.src_path), sink)

on_moved(event, sink) ==
    /\ event.event_type = "moved"
    /\ LET src_relevant == is_relevant_file(event.src_path)
           dest_relevant == is_relevant_file(event.dest_path)
       IN Dispatch(event,
                   ~event.is_directory /\ (src_relevant \/ dest_relevant), sink)

\* the on_* method that an event is dispatched to: whether it builds a
\* FileEvent
Relevant(event) ==
    /\ ~event.is_directory
    /\ \/ is_relevant_file(event.src_path)
       \/ event.event_type = "moved" /\ is_relevant_file(event.dest_path)

\* the thread of an observer that observer.join(timeout=5.0) did not see end
\* completes the dispatch it is in and ends: the handler, which the monitor
\* has scheduled on every observer it made, calls the callback as for any
\* event; neither looks at FileMonitor._running
AbandonedDispatch(serial, event, sink) ==
    LET file_event ==
            IF Relevant(event)
            THEN create_file_event(event.event_type, event.src_path,
                                   event.dest_path, event.is_directory)
            ELSE NoEvent
        escapes == /\ file_event # NoEvent
                   /\ sink = "raises"
                   /\ ~HasValueAttribute(file_event.event_type)
    IN /\ serial \in abandoned
       /\ dispatched.n < MaxDispatches
       /\ event \in WatchdogEvents(watch_path)
       /\ dispatched' = [n |-> dispatched.n + 1, event |-> event,
                         sink |-> IF file_event = NoEvent THEN "" ELSE sink,
                         emitted |-> file_event # NoEvent]
       /\ delivered' = IF file_event = NoEvent THEN delivered
                       ELSE Append(delivered, file_event)
       /\ propagated' = IF escapes THEN propagated + 1 ELSE propagated
       /\ abandoned' = abandoned \ {serial}
       /\ late' = IF file_event = NoEvent THEN late
                  ELSE Append(late, [serial |-> serial, running |-> running,
                                     current |-> observer])
       /\ UNCHANGED <<watch_path, root_exists, running, observer, calls>>
       /\ UNCHANGED <<regVars, writerVars, epVars, parserVars, perfVars, queueVars>>

\* the lifecycle of one monitor, constructed with or without a watch path
MonitorInit ==
    /\ RegInit /\ WriterInit /\ EndpointInit /\ ParserIdle
    /\ PerfIdle /\ QueueInit
    /\ \E path \in WatchRoots, exists \in BOOLEAN : FileMonitorInit(path, exists)

MonitorNext ==
    \/ \E outcome \in StartOutcomes : start(outcome)
    \/ \E how \in StopOutcomes : stop(how)

MonitorSpec == MonitorInit /\ [][MonitorNext]_vars

\* a started monitor and the events its observer thread dispatches
AllWatchdogEvents == UNION {WatchdogEvents(root) : root \in WatchRoots}

WatcherNext ==
    \/ start("ok")
    \/ \E e \in AllWatchdogEvents, sink \in SinkOutcomes : on_created(e, sink)
    \/ \E e \in AllWatchdogEvents, sink \in SinkOutcomes : on_deleted(e, sink)
    \/ \E e \in AllWatchdogEvents, sink \in SinkOutcomes : on_modified(e, sink)
    \/ \E e \in AllWatchdogEvents, sink \in SinkOutcomes : on_moved(e, sink)

WatcherSpec == MonitorInit /\ [][WatcherNext]_vars

RestartNext ==
    \/ start("ok")
    \/ \E how \in {"joined", "timeout"} : stop(how)
    \/ \E e \in AllWatchdogEvents, sink \in SinkOutcomes : on_modified(e, sink)
    \/ \E serial \in 1..MaxCalls, e \in AllWatchdogEvents :
          AbandonedDispatch(serial, e, "returns")

\* a monitor that is started and stopped while its observers dispatch
RestartSpec == MonitorInit /\ [][RestartNext]_vars

(***************************************************************************)
(* The JSONL parser (jsonl_parser.py) on the content of a file: one record *)
(* per line, and for a message line its content array of blocks.           *)
(***************************************************************************)
\* JSON values that a tool_result block carries as content
JString == [json |-> "string", value |-> "OK"]
JObject == [json |-> "object", value |-> "{stdout}"]
JNull == [json |-> "null", value |-> ""]
\* the blocks of a content array: text, a tool_use block, and tool_result
\* blocks that name it or another tool use
Blocks ==
    {[type |-> "text", id |-> "", is_error |-> FALSE, content |-> JNull],
     [type |-> "tool_use", id |-> "t1", is_error |-> FALSE, content |-> JNull],
     [type |-> "tool_result", id |-> "t1", is_error |-> FALSE, content |-> JString],
     [type |-> "tool_result", id |-> "t1", is_error |-> FALSE, content |-> JObject],
     [type |-> "tool_result", id |-> "t1", is_error |-> TRUE, content |-> JObject],
     [type |-> "tool_result", id |-> "t9", is_error |-> FALSE, content |-> JObject]}
Contents == UNION {[1..n -> Blocks] : n \in 0..MaxBlocks}
SessionIds == {"S", "T"}
Timestamps == 1..2
\* the lines of a file: blank, not JSON, JSON that fails one of the checks of
\* _extract_message_data, or a message
LineKinds == {"blank", "invalid_json", "missing_fields", "bad_role",
              "bad_timestamp", "message"}
Line(kind, sessionId, timestamp, content) ==
    [kind |-> kind, sessionId |-> sessionId, timestamp |-> timestamp,
     content |-> content]
Lines ==
    {Line(kind, "S", 1, <<>>) : kind \in LineKinds \ {"message"}}
    \cup {Line("message", s, t, c) :
              s \in SessionIds, t \in Timestamps, c \in Contents}
\* the uuid field of the n-th line of a file
Uuid(n) == IF n = 1 THEN "m1" ELSE IF n = 2 THEN "m2" ELSE "m3"
\* the files of a given number of lines
FilesOfLen(len) == [1..len -> Lines]

\* ToolUsage(tool_name, tool_input, status="pending"); tool_use_id is
\* history, the id of the block the record was built from
ToolUsage(tool_use_id) ==
    [tool_use_id |-> tool_use_id, tool_name |-> "Read",
     tool_output |-> JNull, status |-> "pending"]
\* ToolUsage.tool_output: Optional[dict[str, Any]], validated on assignment
\* (ContractBase: validate_assignment=True)
ValidToolOutput(value) == value.json \in {"object", "null"}
\* tool_calls.get(tool_use_id): the index of the last tool use of that id, 0
\* for none
ToolIndex(tools, tool_use_id) ==
    LET S == {i \in DOMAIN tools : tools[i].tool_use_id = tool_use_id}
    IN IF S = {} THEN 0 ELSE CHOOSE i \in S : \A j \in S : j <= i

RECURSIVE ToolScan(_, _)
\* _extract_tool_usage after the first n blocks: the list built so far, and
\* whether an assignment raised ValidationError
ToolScan(content, n) ==
    IF n = 0
    THEN [tools |-> <<>>, raised |-> FALSE]
    ELSE LET prev == ToolScan(content, n - 1)
             block == content[n]
             tool_index == ToolIndex(prev.tools, block.id)
         IN IF prev.raised
            THEN prev
            ELSE IF block.type = "tool_use"
            THEN [prev EXCEPT !.tools = Append(@, ToolUsage(block.id))]
            ELSE IF block.type = "tool_result" /\ tool_index # 0
            THEN IF ~ValidToolOutput(block.content)
                 THEN [prev EXCEPT !.raised = TRUE]
                 ELSE [prev EXCEPT
                         !.tools[tool_index].tool_output = block.content,
                         !.tools[tool_index].status =
                             IF block.is_error THEN "error" ELSE "success"]
            ELSE prev

extract_tool_usage(content) == ToolScan(content, Len(content))

\* _extract_content: the text parts of the blocks of type text
extract_content(content) ==
    Len(SelectSeq(content, LAMBDA block : block.type = "text"))

NoMessage == [message_id |-> "", timestamp |-> 0, content |-> 0,
              tool_usage |-> <<>>, line |-> 0]
\* _extract_message_data(raw_data) for line n: the ParsedMessage, or the
\* ProcessingError; an exception of _extract_tool_usage is caught by the
\* except clause and reported as ExtractionError.  line is history.
extract_message_data(raw_data, n) ==
    IF raw_data.kind \in {"missing_fields", "bad_role"}
    THEN [error_type |-> "ValidationError", message |-> NoMessage]
    ELSE IF extract_tool_usage(raw_data.content).raised
    THEN [error_type |-> "ExtractionError", message |-> NoMessage]
    ELSE IF raw_data.kind = "bad_timestamp"
    THEN [error_type |-> "ValidationError", message |-> NoMessage]
    ELSE [error_type |-> "",
          message |-> [message_id |-> Uuid(n),
                       timestamp |-> raw_data.timestamp,
                       content |-> extract_content(raw_data.content),
                       tool_usage |-> extract_tool_usage(raw_data.content).tools,
                       line |-> n]]

\* parse_line(line): what it returns; json.loads raises JSONDecodeError on
\* text that is not JSON, the empty text included
parse_line(line, n) ==
    IF line.kind \in {"invalid_json", "blank"}
    THEN [error_type |-> "JSONDecodeError", message |-> NoMessage]
    ELSE extract_message_data(line, n)

RECURSIVE ParsedMessages(_, _)
\* the messages list of parse_conversation_file after the first n lines:
\* blank lines and lines that parse_line answers with an error are skipped
ParsedMessages(lines, n) ==
    IF n = 0
    THEN <<>>
    ELSE LET prev == ParsedMessages(lines, n - 1)
             result == parse_line(lines[n], n)
         IN IF lines[n].kind = "blank" \/ result.error_type # ""
            THEN prev
            ELSE Append(prev, result.message)

\* parse_line(line): what it does to self.stats, given what it returns
Tally(st, result) ==
    LET bucket == IF result.error_type = ""
                   THEN "messages_parsed"
                   ELSE IF result.error_type \in {"JSONDecodeError",
                                                   "UnexpectedError"}
                   THEN "parse_errors"
                   ELSE "validation_errors"
    IN [st EXCEPT !.lines_processed = @ + 1, ![bucket] = @ + 1]

RECURSIVE FileStats(_, _, _)
\* self.stats after parse_conversation_file has read the first n lines:
\* blank lines are skipped before parse_line is called
FileStats(st, lines, n) ==
    IF n = 0
    THEN st
    ELSE LET prev == FileStats(st, lines, n - 1)
         IN IF lines[n].kind = "blank"
            THEN prev
            ELSE Tally(prev, parse_line(lines[n], n))

\* parse_conversation_file(file_path) on a file with these lines
parse_conversation_lines(path, lines) ==
    LET msgs == ParsedMessages(lines, Len(lines))
    IN IF msgs = <<>>
       THEN [error_type |-> "EmptyFile", conversation |-> NoConversation]
       ELSE [error_type |-> "",
             conversation |-> [project_id |-> uuid4,
                               session_id |-> FileSessionId(path),
                               message_count |-> Len(msgs),
                               messages |-> msgs]]

\* one call of parse_conversation_file(file_path)
parse_file ==
    /\ parsed.pc = "idle"
    /\ parsed' = [pc |-> "returned",
                  result |-> parse_conversation_lines(file_path, file)]
    /\ nextUuid' = nextUuid + 1
    /\ parser_stats' = FileStats(parser_stats, file, Len(file))
    /\ UNCHANGED <<file_path, file, line_call>>
    /\ UNCHANGED <<conversations, messages, stats, monitor_stats,
                   total_samples, events, escaped, call, writes>>
    /\ UNCHANGED <<regVars, epVars, lifeVars, perfVars, queueVars>>

\* a parser and the file it is asked to parse
ParserInit ==
    /\ RegInit /\ WriterInit /\ EndpointInit
    /\ FileMonitorInit(DefaultRoot, TRUE)
    /\ PerfIdle /\ QueueInit
    /\ file_path \in Paths
    /\ \E len \in 0..MaxLines : file \in FilesOfLen(len)
    /\ parsed = [pc |-> "idle",
                 result |-> [error_type |-> "", conversation |-> NoConversation]]
    /\ parser_stats = NoParserStats
    /\ line_call = NoLineCall

ParserNext == parse_file

ParserSpec == ParserInit /\ [][ParserNext]_vars

\* one call of parse_line(line) on a parser
ParseLine(line) ==
    /\ parser_stats.lines_processed < MaxParsed
    /\ parser_stats' = Tally(parser_stats, parse_line(line, 1))
    /\ line_call' = [pc |-> "returned", line |-> line,
                     error_type |-> parse_line(line, 1).error_type]
    /\ UNCHANGED <<file_path, file, parsed>>
    /\ UNCHANGED <<regVars, writerVars, epVars, lifeVars, perfVars, queueVars>>

\* reset_stats()
reset_stats ==
    /\ parser_stats' = NoParserStats
    /\ UNCHANGED <<file_path, file, parsed, line_call>>
    /\ UNCHANGED <<regVars, writerVars, epVars, lifeVars, perfVars, queueVars>>

LineNext ==
    \/ \E line \in Lines : ParseLine(line)
    \/ reset_stats

\* a parser fed one line at a time
LineSpec == Init /\ [][LineNext]_vars

(***************************************************************************)
(* The performance monitor (performance_monitor.py).                       *)
(***************************************************************************)
\* record_metrics with the violation test at >= instead of >
record_metricsAtThreshold(metrics) ==
    /\ rec.pc = "idle"
    /\ recorded.calls < MaxRecords
    /\ detection_latencies' =
           DequeAppend(detection_latencies, metrics.detection_latency_ms)
    /\ processing_latencies' =
           DequeAppend(processing_latencies, metrics.processing_latency_ms)
    /\ throughput_samples' =
           DequeAppend(throughput_samples, metrics.throughput_msgs_per_sec)
    /\ perf_stats' =
           [total_samples |-> perf_stats.total_samples + 1,
            sla_violations |->
                IF metrics.detection_latency_ms >= Threshold
                THEN perf_stats.sla_violations + 1
                ELSE perf_stats.sla_violations,
            peak_detection_latency_ms |->
                Max(perf_stats.peak_detection_latency_ms,
                    metrics.detection_latency_ms),
            peak_processing_latency_ms |->
                Max(perf_stats.peak_processing_latency_ms,
                    metrics.processing_latency_ms),
            peak_throughput_msgs_per_sec |->
                Max(perf_stats.peak_throughput_msgs_per_sec,
                    metrics.throughput_msgs_per_sec)]
    /\ recorded' =
           [n |-> recorded.n + 1,
            over |-> IF metrics.detection_latency_ms > Threshold
                     THEN recorded.over + 1 ELSE recorded.over,
            calls |-> recorded.calls + 1]
    /\ UNCHANGED <<rec, summary, clocks>>
    /\ UNCHANGED <<regVars, writerVars, epVars, lifeVars, parserVars, queueVars>>

\* record_metrics(metrics), called with no other call on the monitor in
\* progress
record_metrics(metrics) ==
    /\ rec.pc = "idle"
    /\ recorded.calls < MaxRecords
    /\ detection_latencies' =
           DequeAppend(detection_latencies, metrics.detection_latency_ms)
    /\ processing_latencies' =
           DequeAppend(processing_latencies, metrics.processing_latency_ms)
    /\ throughput_samples' =
           DequeAppend(throughput_samples, metrics.throughput_msgs_per_sec)
    /\ perf_stats' =
           [total_samples |-> perf_stats.total_samples + 1,
            sla_violations |->
                IF metrics.detection_latency_ms > Threshold
                THEN perf_stats.sla_violations + 1
                ELSE perf_stats.sla_violations,
            peak_detection_latency_ms |->
                Max(perf_stats.peak_detection_latency_ms,
                    metrics.detection_latency_ms),
            peak_processing_latency_ms |->
                Max(perf_stats.peak_processing_latency_ms,
                    metrics.processing_latency_ms),
            peak_throughput_msgs_per_sec |->
                Max(perf_stats.peak_throughput_msgs_per_sec,
                    metrics.throughput_msgs_per_sec)]
    /\ recorded' =
           [n |-> recorded.n + 1,
            over |-> IF metrics.detection_latency_ms > Threshold
                     THEN recorded.over + 1 ELSE recorded.over,
            calls |-> recorded.calls + 1]
    /\ UNCHANGED <<rec, summary, clocks>>
    /\ UNCHANGED <<regVars, writerVars, epVars, lifeVars, parserVars, queueVars>>

\* get_summary: the status for sla_compliance_rate = 1.0 - violations /
\* max(1, total), compared in percent; the float comparisons of the code
\* agree with the exact ones for every total below 3000
ComplianceStatus(violations, total) ==
    LET den == Max(1, total)
        num == den - violations
    IN IF 100 * num >= OK_COMPLIANCE_PCT * den
       THEN "ok"
       ELSE IF 100 * num >= DEGRADED_COMPLIANCE_PCT * den
       THEN "degraded"
       ELSE "unavailable"

\* get_summary(); n and over are history, the samples recorded since the
\* last reset when the call was made
get_summary ==
    /\ summary' =
           [pc |-> "returned",
            status |-> IF detection_latencies = <<>>
                       THEN "no_data"
                       ELSE ComplianceStatus(perf_stats.sla_violations,
                                             perf_stats.total_samples),
            rate |-> IF detection_latencies = <<>>
                     THEN <<0, 1>>
                     ELSE <<Max(1, perf_stats.total_samples)
                              - perf_stats.sla_violations,
                            Max(1, perf_stats.total_samples)>>,
            total |-> perf_stats.total_samples,
            sla_violations |-> perf_stats.sla_violations,
            buffer_size |-> Len(detection_latencies),
            n |-> recorded.n, over |-> recorded.over]
    /\ UNCHANGED <<detection_latencies, processing_latencies,
                   throughput_samples, perf_stats, rec, recorded, clocks>>
    /\ UNCHANGED <<regVars, writerVars, epVars, lifeVars, parserVars, queueVars>>

\* PerformanceMonitor.reset_stats()
perf_reset_stats ==
    /\ rec.pc = "idle"
    /\ detection_latencies' = <<>>
    /\ processing_latencies' = <<>>
    /\ throughput_samples' = <<>>
    /\ perf_stats' = NoPerfStats
    /\ recorded' = [recorded EXCEPT !.n = 0, !.over = 0]
    /\ UNCHANGED <<rec, summary, clocks>>
    /\ UNCHANGED <<regVars, writerVars, epVars, lifeVars, parserVars, queueVars>>

\* what a monitor has recorded before: (total_samples, sla_violations)
PriorStats == {<<0, 0>>, <<19, 0>>, <<19, 1>>, <<99, 0>>, <<99, 1>>,
               <<99, 4>>, <<99, 5>>}
Min(a, b) == IF a <= b THEN a ELSE b
\* a monitor that has recorded total samples, violations of them over the
\* threshold: its buffers hold the last max_samples of them
PerfInit ==
    /\ RegInit /\ WriterInit /\ EndpointInit
    /\ FileMonitorInit(DefaultRoot, TRUE)
    /\ ParserIdle
    /\ QueueInit
    /\ \E prior \in PriorStats :
          LET total == prior[1]
              violations == prior[2]
              len == Min(total, MaxSamples)
          IN /\ detection_latencies \in [1..len -> Latencies]
             /\ Cardinality({i \in 1..len :
                     detection_latencies[i] > Threshold}) <= violations
             /\ Cardinality({i \in 1..len :
                     detection_latencies[i] <= Threshold})
                   <= total - violations
             /\ processing_latencies = [i \in 1..len |-> 5]
             /\ throughput_samples = [i \in 1..len |-> 10]
             /\ perf_stats =
                   [total_samples |-> total, sla_violations |-> violations,
                    peak_detection_latency_ms |->
                        IF violations > 0 THEN Threshold + 1
                        ELSE IF total > 0 THEN Threshold ELSE 0,
                    peak_processing_latency_ms |-> IF total > 0 THEN 5 ELSE 0,
                    peak_throughput_msgs_per_sec |->
                        IF total > 0 THEN 10 ELSE 0]
             /\ recorded = [n |-> total, over |-> violations, calls |-> 0]
    /\ rec = NoRecord
    /\ summary = NoSummary
    /\ clocks = [boot |-> 1000000000, delay |-> 0]

PerfNext ==
    \/ \E metrics \in Samples : record_metrics(metrics)
    \/ get_summary
    \/ perf_reset_stats

\* a monitor whose callers call it one at a time
PerfSpec == PerfInit /\ [][PerfNext]_vars

\* record_metrics(metrics) on the watcher thread, up to its first statement:
\* the append to detection_latencies.  No lock is taken.
record_call(metrics) ==
    /\ rec.pc = "idle"
    /\ recorded.calls < MaxRecords
    /\ rec' = [pc |-> "processing", metrics |-> metrics]
    /\ detection_latencies' =
           DequeAppend(detection_latencies, metrics.detection_latency_ms)
    /\ UNCHANGED <<processing_latencies, throughput_samples, perf_stats,
                   summary, recorded, clocks>>
    /\ UNCHANGED <<regVars, writerVars, epVars, lifeVars, parserVars, queueVars>>

\* the next statement of the record_metrics() call in progress
record_step ==
    /\ rec.pc # "idle"
    /\ processing_latencies' =
           IF rec.pc = "processing"
           THEN DequeAppend(processing_latencies,
                            rec.metrics.processing_latency_ms)
           ELSE processing_latencies
    /\ throughput_samples' =
           IF rec.pc = "throughput"
           THEN DequeAppend(throughput_samples,
                            rec.metrics.throughput_msgs_per_sec)
           ELSE throughput_samples
    /\ perf_stats' =
           IF rec.pc = "total"
           THEN [perf_stats EXCEPT !.total_samples = @ + 1]
           ELSE IF rec.pc = "sla"
                   /\ rec.metrics.detection_latency_ms > Threshold
           THEN [perf_stats EXCEPT !.sla_violations = @ + 1]
           ELSE IF rec.pc = "peaks"
           THEN [perf_stats EXCEPT
                   !.peak_detection_latency_ms =
                       Max(@, rec.metrics.detection_latency_ms),
                   !.peak_processing_latency_ms =
                       Max(@, rec.metrics.processing_latency_ms),
                   !.peak_throughput_msgs_per_sec =
                       Max(@, rec.metrics.throughput_msgs_per_sec)]
           ELSE perf_stats
    /\ recorded' =
           IF rec.pc = "peaks"
           THEN [n |-> recorded.n + 1,
                 over |-> IF rec.metrics.detection_latency_ms > Threshold
                          THEN recorded.over + 1 ELSE recorded.over,
                 calls |-> recorded.calls + 1]
           ELSE recorded
    /\ rec' = IF rec.pc = "processing" THEN [rec EXCEPT !.pc = "throughput"]
              ELSE IF rec.pc = "throughput" THEN [rec EXCEPT !.pc = "total"]
              ELSE IF rec.pc = "total" THEN [rec EXCEPT !.pc = "sla"]
              ELSE IF rec.pc = "sla" THEN [rec EXCEPT !.pc = "peaks"]
              ELSE NoRecord
    /\ UNCHANGED <<detection_latencies, summary, clocks>>
    /\ UNCHANGED <<regVars, writerVars, epVars, lifeVars, parserVars, queueVars>>

ThreadNext ==
    \/ \E metrics \in Samples : record_call(metrics)
    \/ record_step
    \/ get_summary

(***************************************************************************)
(* The priority message queue (message_queue.py).  The heap is kept as the *)
(* set of its entries [priority, count, message]: heappop takes the least  *)
(* entry, by priority and then by count.                                   *)
(***************************************************************************)
Before(e, f) ==
    \/ e.priority < f.priority
    \/ e.priority = f.priority /\ e.count < f.count
\* enqueue(message); count is _counter + 1, so that 0 is no entry
enqueue(message) ==
    /\ counter < MaxQueued
    /\ queue' = queue \cup {[priority |-> message.priority, count |-> counter + 1,
                             client_id |-> message.client_id]}
    /\ entry_finder' = [entry_finder EXCEPT ![message.client_id] = counter + 1]
    /\ counter' = counter + 1
    /\ UNCHANGED dequeued
    /\ UNCHANGED <<regVars, writerVars, epVars, lifeVars, parserVars, perfVars>>

\* dequeue(): None on an empty heap; else the least entry is popped, its
\* client's key is deleted from _entry_finder, which raises KeyError when
\* the key is not there, and the message is returned.  rest is history:
\* the entries left in the heap.
dequeue ==
    /\ Len(dequeued) <= MaxQueued
    /\ IF queue = {}
       THEN /\ dequeued' = Append(dequeued, [outcome |-> "None", count |-> 0,
                                             priority |-> 0, rest |-> {}])
            /\ UNCHANGED <<queue, entry_finder>>
       ELSE LET e == CHOOSE x \in queue : \A y \in queue \ {x} : Before(x, y)
            IN /\ queue' = queue \ {e}
               /\ IF entry_finder[e.client_id] # 0
                  THEN /\ entry_finder' =
                            [entry_finder EXCEPT ![e.client_id] = 0]
                       /\ dequeued' =
                            Append(dequeued,
                                   [outcome |-> "message", count |-> e.count,
                                    priority |-> e.priority,
                                    rest |-> queue \ {e}])
                  ELSE /\ entry_finder' = entry_finder
                       /\ dequeued' =
                            Append(dequeued,
                                   [outcome |-> "KeyError", count |-> e.count,
                                    priority |-> e.priority,
                                    rest |-> queue \ {e}])
    /\ UNCHANGED counter
    /\ UNCHANGED <<regVars, writerVars, epVars, lifeVars, parserVars, perfVars>>

\* size()
size == Cardinality(queue)

QueueNext ==
    \/ \E message \in PriorityMessages : enqueue(message)
    \/ dequeue

QueueSpec == Init /\ [][QueueNext]_vars

\* a monitor whose record_metrics() runs on the watcher thread while
\* get_summary() is called from another thread
ThreadSpec == PerfInit /\ [][ThreadNext]_vars

(***************************************************************************)
(* Properties of the connection registry and the broadcaster.              *)
(***************************************************************************)
\* the sessions broadcast b called send_text on: delivered, or reported failed
Delivered(b, c) == Count(BcFrame(b), inbox[c])
Reported(b, c) == Count(c, bc[b].failed)
Sent(b) == {c \in ClientIds : Delivered(b, c) > 0} \cup Range(bc[b].failed)
\* the call ran its loop (the envelope was serializable)
Dispatched(b) == bc[b].status \in {"sending", "returned"} /\ bc[b].error = ""
\* the routing rule addresses the same sessions now as when b was called
SameAddressed(b) == Addressed(bc[b].filter) = bc[b].addressed

\* C1: a broadcast sends to exactly index[F] \cup index["all_conversations"],
\* or to the whole session table when F is absent or "all_conversations";
\* no session outside that set gets a frame, and with nobody addressed
\* nothing is sent and the failed list is empty.
C1_Routing ==
    \A b \in Bcasts :
        (Dispatched(b) /\ SameAddressed(b)) =>
            /\ Sent(b) \subseteq Addressed(bc[b].filter)
            /\ bc[b].status = "returned" => Sent(b) = Addressed(bc[b].filter)
            /\ (bc[b].status = "returned" /\ Addressed(bc[b].filter) = {}) =>
                  (bc[b].failed = <<>> /\ \A c \in ClientIds : Delivered(b, c) = 0)

\* a broadcast on file_events has served a subscriber of that key and has
\* left out a connected session that subscribed to neither key
C1_Witness ==
    \E b \in Bcasts :
        /\ bc[b].status = "returned" /\ bc[b].error = ""
        /\ bc[b].filter = "file_events"
        /\ SameAddressed(b)
        /\ \E c \in Sent(b) :
              c \in Index("file_events") \ Index("all_conversations")
        /\ \E e \in Keys(active_connections) : e \notin Sent(b)

DictErrors == {"dictionary changed size during iteration",
               "dictionary keys changed during iteration"}

\* C2: a failed send puts the client id in the failed list, the broadcast
\* does not raise because of it, and every other addressed session still
\* gets the frame exactly once.
C2_FailedSendIsolated ==
    \A b \in Bcasts :
        /\ bc[b].status = "raised" => bc[b].error \in DictErrors
        /\ (bc[b].status = "returned" /\ bc[b].error = "" /\ SameAddressed(b)) =>
              \A c \in bc[b].addressed : Delivered(b, c) + Reported(b, c) = 1

C2_Witness ==
    \E b \in Bcasts :
        /\ bc[b].status = "returned" /\ bc[b].error = "" /\ SameAddressed(b)
        /\ \E c, d \in bc[b].addressed :
              /\ Reported(b, c) = 1 /\ Delivered(b, c) = 0
              /\ Delivered(b, d) = 1 /\ Reported(b, d) = 0

\* C3: concurrent broadcasts: a session addressed by two broadcasts that
\* stays connected gets each frame exactly once (or is reported failed for
\* it), and no step of a broadcast changes the session table or the index.
C3_BothDelivered ==
    \A a, b \in Bcasts :
        (a # b /\ bc[a].status = "returned" /\ bc[a].error = ""
               /\ bc[b].status = "returned" /\ bc[b].error = "") =>
            \A c \in bc[a].addressed \cap bc[b].addressed \cap Keys(active_connections) :
                /\ Delivered(a, c) + Reported(a, c) = 1
                /\ Delivered(b, c) + Reported(b, c) = 1

BroadcastStep ==
    \/ \E b \in Bcasts, F \in Filters, ok \in BOOLEAN : broadcast(b, F, ok)
    \/ \E b \in Bcasts, o \in SendOutcomes : broadcastResume(b, o)

C3_ConcurrentBroadcasts ==
    /\ []C3_BothDelivered
    /\ [][BroadcastStep =>
            UNCHANGED <<active_connections, subscriptions, client_metadata>>]_regVars

\* the second broadcast ran to its end while the first was awaiting a send,
\* and a session addressed by both has the second frame
C3_Witness ==
    /\ bc[1].status = "sending" /\ bc[2].status = "returned"
    /\ \E c \in bc[1].addressed \cap bc[2].addressed :
          Delivered(2, c) = 1 /\ Delivered(1, c) = 0 /\ c \in bc[1].cur

\* C4: an accept or a disconnect that interleaves with a broadcast in
\* progress, with or without a filter, does not make the broadcast fail,
\* and every session addressed at the start that is still connected gets
\* the frame.
C4_BroadcastSnapshots ==
    \A b \in Bcasts :
        /\ bc[b].status # "raised"
        /\ (bc[b].status = "returned" /\ bc[b].error = "") =>
              \A c \in bc[b].addressed \cap Keys(active_connections) :
                  Delivered(b, c) + Reported(b, c) = 1

\* C5: every client id in an index set is a key of the session table.
C5_IndexWithinTable ==
    \A k \in DOMAIN subscriptions :
        subscriptions[k] \subseteq Keys(active_connections)

\* accept, disconnect, send and broadcast have all run, and the index is not empty
C5_Witness ==
    /\ sends > 0
    /\ bc[1].status = "returned" /\ bc[1].error = ""
    /\ \E c \in Minted : c \notin Keys(active_connections)
    /\ \E k \in DOMAIN subscriptions : subscriptions[k] # {}

\* C6: disconnect(c) leaves c in neither the session table, the metadata nor
\* any index set; on an id that is not registered it changes nothing.
Registered(c) ==
    \/ c \in Keys(active_connections)
    \/ client_metadata[c].present
    \/ \E k \in DOMAIN subscriptions : c \in subscriptions[k]

C6_DisconnectRepairs ==
    [][\A c \in ClientIds :
          disconnect(c) =>
              /\ c \notin Keys(active_connections')
              /\ ~client_metadata'[c].present
              /\ \A k \in DOMAIN subscriptions' : c \notin subscriptions'[k]
              /\ ~Registered(c) => UNCHANGED regVars]_regVars

\* a session that had connected has been disconnected, another one stays
C6_Witness ==
    \E c \in Minted :
        /\ ~Registered(c)
        /\ connCall[c] = "returned"
        /\ \E d \in Keys(active_connections) : d > c

(***************************************************************************)
(* Properties of the writer and of the orchestrator that feeds it.         *)
(***************************************************************************)
\* the attempts of one step of the call in progress (or of the last call)
StepEntries(s) == SelectSeq(call.log, LAMBDA e : e.step = s)
StepPrefix(s) ==
    IF s = "record" THEN "Failed to write conversation: "
    ELSE "Failed to batch upsert messages: "
\* the rows of a conversations table that were parsed from a file
FileRows(convs, path) == {i \in DOMAIN convs : convs[i].title = path}
\* the rows of a messages table that belong to conversations of a file
FileMessageRows(convs, rows, path) ==
    {n \in DOMAIN rows :
        \E i \in FileRows(convs, path) : rows[n].conversation_id = convs[i].id}

\* C7: write(c) ; write(c) with the same conversation returns the same id
\* both times, leaves the messages table with the rows it had after the
\* first call, increments conversations_updated by one and does not
\* increment conversations_written.
C7_WriteIdempotent ==
    \A i \in 1..(Len(writes) - 1) :
        LET first == writes[i]
            second == writes[i + 1]
        IN (first.ok /\ second.ok /\ first.conv = second.conv) =>
              /\ second.id = first.id
              /\ second.rows = first.rows
              /\ second.stats.conversations_updated =
                    first.stats.conversations_updated + 1
              /\ second.stats.conversations_written =
                    first.stats.conversations_written

\* C8: two modified events for the same file with identical content leave
\* one conversation row for the file and one message row per transcript
\* line; the second event is an update of the row the first created
\* (conversations_written >= 1, conversations_updated >= 1) and does not
\* change messages_written.
C8_RepeatedEventUpdates ==
    \A i \in 1..(Len(writes) - 1) :
        LET first == writes[i]
            second == writes[i + 1]
            path == second.origin.src_path
        IN (/\ first.ok /\ second.ok
            /\ first.origin = second.origin
            /\ second.origin.event_type = "modified") =>
              /\ Cardinality(FileRows(second.convs, path)) = 1
              /\ Cardinality(FileMessageRows(second.convs, second.rows, path))
                    = Len(FileLines(path))
              /\ second.stats.conversations_written >= 1
              /\ second.stats.conversations_updated >= 1
              /\ second.stats.messages_written = first.stats.messages_written

\* C9: every pass of the conversation step looks the conversation up by
\* (project_id, session_id); when a row exists it issues an UPDATE keyed by
\* that row's id, never an INSERT, and returns that id; otherwise it issues
\* an INSERT and returns the new row's id; the conversations table holds at
\* most one row per (project_id, session_id), retried steps included.
C9_OneRowPerKey ==
    /\ \A i, j \in DOMAIN conversations :
          (/\ conversations[i].project_id = conversations[j].project_id
           /\ conversations[i].session_id = conversations[j].session_id)
             => i = j
    /\ \A i \in DOMAIN conversations : conversations[i].id = i
    /\ \A n \in DOMAIN call.log :
          LET e == call.log[n]
          IN (e.step = "record" /\ e.op # "select") =>
                /\ e.present => (e.op = "update" /\ e.key = e.existing
                                 /\ e.key \in DOMAIN conversations)
                /\ ~e.present => e.op = "insert"
                /\ e.outcome = "ok" =>
                      /\ call.conversation_id = e.key
                      /\ e.key \in DOMAIN conversations
                      /\ conversations[e.key].project_id = call.conv.project_id
                      /\ conversations[e.key].session_id = call.conv.session_id
                /\ (e.op = "insert" /\ e.outcome = "ok") =>
                      \A m \in 1..(n - 1) : call.log[m].key = 0

\* a retried conversation step: the INSERT was applied and returned no row,
\* the next pass found the row and updated it
C9_Witness ==
    /\ call.pc = "returned"
    /\ Len(conversations) = 2
    /\ \E n \in DOMAIN call.log :
          /\ n > 1
          /\ call.log[n].op = "update" /\ call.log[n].outcome = "ok"
          /\ call.log[n - 1].op = "insert" /\ call.log[n - 1].key # 0
    /\ \E i \in DOMAIN writes : writes[i].ok /\ i < Len(writes)

\* C10: each step of write (conversation lookup and write, message batch)
\* is attempted at most three times; an APIError on attempt 1 or 2 is
\* followed by a sleep of 100 ms, then 200 ms, and by another attempt; a
\* successful attempt is the step's last; a third APIError in a row makes
\* the write fail with a DatabaseError that carries the last backend
\* message; a write makes at most six attempts.
C10_BoundedRetries ==
    /\ Len(call.log) <= 6
    /\ call.pc \in {"record", "messages"} => call.attempt < 3
    /\ \A s \in {"record", "messages"} :
          LET es == StepEntries(s)
          IN /\ Len(es) <= 3
             /\ \A n \in DOMAIN es :
                   /\ es[n].outcome = "ok" => (n = Len(es) /\ es[n].slept = 0)
                   /\ es[n].outcome = "Exception" =>
                         /\ n = Len(es) /\ es[n].slept = 0
                         /\ call.pc = "raised"
                         /\ call.error_type = "UnexpectedDatabaseError"
                   /\ (es[n].outcome = "APIError" /\ n < 3) =>
                         /\ es[n].slept = (IF n = 1 THEN 100 ELSE 200)
                         /\ (n < Len(es) \/ (call.pc = s /\ call.attempt = n))
                   /\ (es[n].outcome = "APIError" /\ n = 3) =>
                         /\ es[n].slept = 0
                         /\ call.pc = "raised"
                         /\ call.error_type = "DatabaseError"
                         /\ call.error_message = <<StepPrefix(s), es[n].message>>
    /\ call.pc = "raised" =>
          /\ call.log # <<>>
          /\ call.log[Len(call.log)].outcome \in {"APIError", "Exception"}
          /\ call.error_type = "DatabaseError" =>
                Len(StepEntries(call.log[Len(call.log)].step)) = 3
    /\ call.pc = "returned" =>
          /\ call.log # <<>>
          /\ call.log[Len(call.log)].outcome = "ok"

\* six attempts: the conversation step succeeds on its third attempt and the
\* message step fails three times
C10_Witness ==
    /\ call.pc = "raised"
    /\ call.error_type = "DatabaseError"
    /\ Len(call.log) = 6
    /\ call.error_message = <<"Failed to batch upsert messages: ", "backend error 3">>
    /\ [n \in 1..6 |-> call.log[n].slept] = <<100, 200, 0, 100, 200, 0>>

(***************************************************************************)
(* Properties of the orchestrator's event handler.                         *)
(***************************************************************************)
\* the event reaches the parser / the parser finds no valid message
Processed(ev) ==
    ev.event_type \in {"created", "modified"} /\ IsJsonl(ev.src_path)
ParseFails(ev) == Processed(ev) /\ FileLines(ev.src_path) = <<>>
\* the writes the orchestrator asked for, by how they ended
MonitorWrites(ok) ==
    {i \in DOMAIN writes : writes[i].origin # Direct /\ writes[i].ok = ok}
\* the broadcasts that a step starts
StartedBroadcasts ==
    {b \in Bcasts : bc[b].status = "idle" /\ bc'[b].status # "idle"}

\* C11: the handling of a created or modified .jsonl event that is parsed
\* and written successfully broadcasts exactly two envelopes, one of them
\* with subscription_filter "file_events"; a dropped or failed event
\* broadcasts nothing.
C11_TwoEnvelopes ==
    [][IF monitor_stats'.files_processed = monitor_stats.files_processed + 1
       THEN /\ Cardinality(StartedBroadcasts) = 2
            /\ \E b \in StartedBroadcasts : bc'[b].filter = "file_events"
       ELSE (events' # events \/ call' # call) => StartedBroadcasts = {}]_vars

\* C12: an event whose file the parser rejects (EmptyFile included) adds
\* exactly one to processing_errors, writes nothing, records no sample and
\* leaves files_processed and conversations_created as they were; the
\* handler returns, so that the next event is processed: the counters of
\* successes always equal the number of successful writes of the monitor.
C12_ParseErrorCounted ==
    /\ [](/\ monitor_stats.files_processed = Cardinality(MonitorWrites(TRUE))
          /\ monitor_stats.conversations_created = Cardinality(MonitorWrites(TRUE))
          /\ total_samples = Cardinality(MonitorWrites(TRUE))
          /\ monitor_stats.processing_errors + Cardinality(MonitorWrites(TRUE))
                <= events)
    /\ [][\A ev \in FileEvents :
             (ParseFails(ev) /\ handle_file_event(ev)) =>
                 /\ monitor_stats' =
                       [monitor_stats EXCEPT !.processing_errors = @ + 1]
                 /\ Quiet'
                 /\ UNCHANGED <<conversations, messages, stats, total_samples,
                                call, writes, escaped>>]_vars

\* a malformed file, then a valid one
C12_Witness ==
    /\ events = 2
    /\ monitor_stats.processing_errors = 1
    /\ monitor_stats.conversations_created = 1
    /\ stats.write_errors = 0
    /\ Len(writes) = 1 /\ writes[1].ok /\ writes[1].origin.src_path = "a.jsonl"

\* C13: an event whose write fails (retries exhausted included) adds
\* exactly one to processing_errors, records no sample, leaves
\* files_processed as it was, and no error leaves the event handler.
C13_WriteFailureContained ==
    /\ escaped = 0
    /\ total_samples = Cardinality(MonitorWrites(TRUE))
    /\ monitor_stats.files_processed = Cardinality(MonitorWrites(TRUE))
    /\ monitor_stats.processing_errors >= Cardinality(MonitorWrites(FALSE))
    /\ monitor_stats.processing_errors + Cardinality(MonitorWrites(TRUE)) <= events

(***************************************************************************)
(* Further properties of the connection registry and the broadcaster.      *)
(***************************************************************************)
\* C14: a session accepted with a subscription key K is a member of
\* index[K] from accept until disconnect, and a broadcast whose
\* subscription_filter is K addresses it.
C14_SubscribedIsIndexed ==
    \A c \in Keys(active_connections) :
        client_metadata[c].present =>
            \A K \in Range(client_metadata[c].subscriptions) :
                c \in Index(K) /\ c \in TargetClients(K)

\* C18: a broadcast whose envelope cannot be serialized sends no frame,
\* does not raise, and returns every addressed session in the failed list.
C18_SerializationFailsAll ==
    \A b \in Bcasts :
        bc[b].error = "serialization" =>
            /\ bc[b].status = "returned"
            /\ \A c \in ClientIds : Delivered(b, c) = 0
            /\ Range(bc[b].failed) = bc[b].addressed

\* C19: no step of broadcast or send changes the session table or the
\* subscription index; a session leaves them only by a disconnect step, so
\* a session whose send failed stays registered and indexed.
C19_SendsKeepRegistry ==
    [][/\ (bc' # bc \/ sends' # sends) =>
              UNCHANGED <<active_connections, subscriptions>>
       /\ \A c \in ClientIds :
              (\/ c \in Keys(active_connections) \ Keys(active_connections')
               \/ \E k \in DOMAIN subscriptions : c \in subscriptions[k] \ subscriptions'[k])
                 => disconnect(c)]_regVars

\* a send has been made and a broadcast has returned a session as failed
\* that is still in the table and in the index
C19_Witness ==
    /\ sends > 0
    /\ bc[1].status = "returned"
    /\ \E c \in Range(bc[1].failed) :
          /\ c \in Keys(active_connections)
          /\ c \in Index("file_events")

\* the broadcast calls that have been made
Started == {b \in Bcasts : bc[b].status # "idle"}

\* C20: with one producer that makes its send and broadcast calls one after
\* another, every frame is appended to a session's frames by the call made
\* last, so each session has its frames in the order of the calls.
C20_CallOrder ==
    /\ [](\A c \in ClientIds : \A i, j \in DOMAIN inbox[c] :
            (/\ i < j
             /\ inbox[c][i].type = "broadcast"
             /\ inbox[c][j].type = "broadcast")
               => inbox[c][i].id < inbox[c][j].id)
    /\ [][\A c \in ClientIds :
             inbox'[c] # inbox[c] =>
                 \E f \in {BcFrame(b) : b \in Bcasts} \cup {SendFrame(c), EstFrame(c)} :
                     /\ inbox'[c] = Append(inbox[c], f)
                     /\ f.type = "broadcast" =>
                           /\ bc[f.id].status = "sending"
                           /\ \A b \in Started : b <= f.id
                     /\ f.type = "send" => ProducerIdle]_regVars

\* a session has the frame of the first broadcast, then the frame of a send,
\* then the frame of the second broadcast
C20_Witness ==
    \E c \in ClientIds :
        /\ Len(inbox[c]) = 4
        /\ inbox[c][2] = BcFrame(1)
        /\ inbox[c][3] = SendFrame(c)
        /\ inbox[c][4] = BcFrame(2)

(***************************************************************************)
(* Properties of the endpoint coroutines.                                  *)
(***************************************************************************)
\* the sessions that an endpoint of the kind accepted
SessionsOf(kind) == {c \in ClientIds : endpoint[c].kind = kind}

\* C15: after a /ws handshake with an accepted token, accept has created a
\* session whose subscriptions are the defaults, which is a member of
\* index[all_conversations] and index[file_events], and whose first frame is
\* connection_established.
C15_HandshakeDefaults ==
    \A c \in SessionsOf("ws") :
        (connCall[c] = "returned" /\ endpoint[c].loop = "receiving") =>
            /\ c \in Keys(active_connections)
            /\ client_metadata[c].present
            /\ Range(client_metadata[c].subscriptions) = Range(DefaultSubscriptions)
            /\ c \in Index("all_conversations")
            /\ c \in Index("file_events")
            /\ inbox[c] # <<>> /\ inbox[c][1] = EstFrame(c)

C17_LoopEndTearsDown ==
    \A c \in ClientIds :
        endpoint[c].loop \in {"returned", "raised"} => ~Registered(c)


(***************************************************************************)
(* Properties of the orchestrator's lifecycle and of the watcher.          *)
(***************************************************************************)
\* the step is a call of op, which ended as the last record of calls' tells
CallStep(op) ==
    /\ Len(calls') = Len(calls) + 1
    /\ calls'[Len(calls')].op = op
LastOutcome == calls'[Len(calls')].outcome

\* C21: start() on a running monitor and stop() on a monitor that is not
\* running change neither the running flag nor the observer (no second
\* observer is built); start() on a stopped monitor whose observer comes up
\* leaves the watch directory in place and the monitor running; stop() on a
\* running monitor whose observer stops leaves it not running; this holds as
\* well for a start() that follows a stop()
C21_StartStopIdempotent ==
    [][/\ (CallStep("start") /\ running) =>
              UNCHANGED <<running, observer, root_exists>>
       /\ (CallStep("stop") /\ ~running) =>
              UNCHANGED <<running, observer, root_exists>>
       /\ (CallStep("start") /\ ~running /\ LastOutcome = "ok") =>
              /\ root_exists' /\ running'
              /\ observer' = [serial |-> observer.serial + 1, thread |-> "alive"]
       /\ (CallStep("stop") /\ running /\ LastOutcome \in {"joined", "timeout"}) =>
              ~running'
      ]_vars

\* C21 witness: a monitor whose directory was missing is started, started
\* again, stopped, stopped again and started once more
C21_Witness ==
    /\ Len(calls) = 5
    /\ [i \in 1..5 |-> calls[i].op] =
           <<"start", "start", "stop", "stop", "start">>
    /\ [i \in 1..5 |-> calls[i].outcome] =
           <<"ok", "warning", "joined", "warning", "ok">>
    /\ calls[1].mkdir
    /\ running /\ root_exists
    /\ observer = [serial |-> 2, thread |-> "alive"]

\* C22: a start() whose observer cannot be scheduled or started fails with an
\* error whose error type is StartupError and leaves the monitor not
\* running, so that the next start() attempts the startup again
C22_StartupErrorRaised ==
    [][(CallStep("start") /\ LastOutcome \in {"schedule_raises", "start_raises"})
          => /\ calls'[Len(calls')].raised.error_type = "StartupError"
             /\ ~running'
      ]_vars

\* C23: a stop() whose observer raises in stop() or join() surfaces an error
\* and leaves the monitor not running; a stop() whose observer does not
\* join within the timeout abandons it and leaves the monitor not running
C23_StopAlwaysStops ==
    [][(CallStep("stop") /\ running) =>
          /\ LastOutcome \in {"stop_raises", "join_raises"} =>
                /\ calls'[Len(calls')].raised # NoError
                /\ ~running'
          /\ LastOutcome = "timeout" =>
                /\ ~running'
                /\ observer'.thread = "abandoned"
      ]_vars

\* a path under the watched directory whose name ends in .jsonl, in any
\* letter case
EndsInJsonl(path) == Lower(Suffix(path.name)) = ".jsonl"

\* C24: no FileEvent is emitted for a directory; a created, modified or
\* deleted FileEvent is emitted only for a path that ends in .jsonl; a move
\* of a file is emitted iff its source or its destination ends in .jsonl;
\* an emitted FileEvent has a dest_path iff its kind is moved
C24_EmitFilter ==
    /\ \A i \in DOMAIN delivered :
          /\ ~delivered[i].is_directory
          /\ delivered[i].event_type \in {"created", "modified", "deleted"}
                => EndsInJsonl(delivered[i].src_path)
          /\ (delivered[i].dest_path # NoPath)
                <=> (delivered[i].event_type = "moved")
    /\ (dispatched.n > 0 /\ dispatched.event.event_type = "moved") =>
          (dispatched.emitted <=>
              /\ ~dispatched.event.is_directory
              /\ \/ EndsInJsonl(dispatched.event.src_path)
                 \/ EndsInJsonl(dispatched.event.dest_path))

\* C25: whatever directory the monitor was started on, the creation or
\* modification of a regular .jsonl file under it is delivered as a
\* FileEvent to the handler's callback
C25_AnyRootDelivers ==
    (/\ dispatched.n > 0
     /\ dispatched.event.event_type \in {"created", "modified"}
     /\ ~dispatched.event.is_directory
     /\ dispatched.event.src_path.root = watch_path
     /\ EndsInJsonl(dispatched.event.src_path)) =>
        /\ dispatched.emitted
        /\ delivered # <<>>
        /\ delivered[Len(delivered)].src_path = dispatched.event.src_path
        /\ delivered[Len(delivered)].event_type = dispatched.event.event_type

\* C26: when the callback raises on a FileEvent, the handler lets no
\* exception out to the observer thread, which stays alive to deliver the
\* later events
C26_SinkErrorContained ==
    /\ propagated = 0
    /\ dispatched.sink = "raises" => observer.thread = "alive"

(***************************************************************************)
(* Properties of the parser.                                               *)
(***************************************************************************)
Returned == parsed.pc = "returned"
Conversation == parsed.result.conversation
\* the positions of the blocks of one type in a content array, in order
BlocksOfType(content, type) == {p \in DOMAIN content : content[p].type = type}
\* the tool_result blocks after position p that answer the tool_use block at
\* p: same id, and no tool_use block of that id in between
ResultsFor(content, p) ==
    {q \in BlocksOfType(content, "tool_result") :
        /\ q > p
        /\ content[q].id = content[p].id
        /\ \A r \in BlocksOfType(content, "tool_use") :
              (p < r /\ r < q) => content[r].id # content[p].id}
\* the position of the k-th tool_use block
NthToolUse(content, k) ==
    CHOOSE p \in BlocksOfType(content, "tool_use") :
        Cardinality({r \in BlocksOfType(content, "tool_use") : r <= p}) = k

\* C27: every message line is parsed, whatever tool blocks its content
\* array holds; its ToolUsage list has one record per tool_use block; the
\* record of a tool_use block that a later tool_result block of the same
\* message answers carries that block's content as tool_output, of whatever
\* JSON type, and status error or success by is_error; the record of a
\* tool_use block without such a block is pending with null output; a
\* tool_result block that answers no tool_use block changes nothing
C27_ToolPairing ==
    Returned =>
        \A n \in DOMAIN file :
            file[n].kind = "message" =>
                /\ parsed.result.error_type = ""
                /\ \E i \in DOMAIN Conversation.messages :
                      LET m == Conversation.messages[i]
                          content == file[n].content
                      IN /\ m.line = n
                         /\ Len(m.tool_usage) =
                                Cardinality(BlocksOfType(content, "tool_use"))
                         /\ \A k \in DOMAIN m.tool_usage :
                               LET p == NthToolUse(content, k)
                                   R == ResultsFor(content, p)
                                   q == CHOOSE x \in R : \A y \in R : y <= x
                               IN IF R = {}
                                  THEN /\ m.tool_usage[k].status = "pending"
                                       /\ m.tool_usage[k].tool_output = JNull
                                  ELSE /\ m.tool_usage[k].tool_output =
                                              content[q].content
                                       /\ m.tool_usage[k].status =
                                              IF content[q].is_error
                                              THEN "error" ELSE "success"

\* C28: when a message line holds a tool_use block and a later message line
\* of the same file holds the tool_result block of the same id, the parsed
\* conversation holds a ToolUsage of that id whose status is error or
\* success by the is_error of that block
C28_PairingAcrossLines ==
    Returned =>
        \A n1, n2 \in DOMAIN file :
            (/\ n1 < n2
             /\ file[n1].kind = "message" /\ file[n2].kind = "message"
             /\ ResultsFor(file[n1].content \o file[n2].content, 1) # {}
             /\ Len(file[n1].content) = 1
             /\ file[n1].content[1].type = "tool_use"
             /\ Len(file[n2].content) = 1) =>
                /\ parsed.result.error_type = ""
                /\ \E i \in DOMAIN Conversation.messages :
                      \E k \in DOMAIN Conversation.messages[i].tool_usage :
                          LET tool == Conversation.messages[i].tool_usage[k]
                          IN /\ tool.tool_use_id = file[n1].content[1].id
                             /\ tool.status =
                                    IF file[n2].content[1].is_error
                                    THEN "error" ELSE "success"

\* C29: the session_id of a parsed conversation is the sessionId field of
\* the first line of the file that was parsed into a message
C29_SessionIdFromContent ==
    (Returned /\ parsed.result.error_type = "") =>
        Conversation.session_id =
            file[Conversation.messages[1].line].sessionId

\* C30: a parsed conversation has message_count equal to the number of its
\* messages, and its messages are ordered by timestamp, messages of equal
\* timestamp in the order of their lines
C30_CountAndOrder ==
    (Returned /\ parsed.result.error_type = "") =>
        /\ Conversation.message_count = Len(Conversation.messages)
        /\ \A i, j \in DOMAIN Conversation.messages :
              i < j =>
                 \/ Conversation.messages[i].timestamp
                        < Conversation.messages[j].timestamp
                 \/ /\ Conversation.messages[i].timestamp
                          = Conversation.messages[j].timestamp
                    /\ Conversation.messages[i].line
                          < Conversation.messages[j].line

(***************************************************************************)
(* Properties of parse_line and of the parser's statistics.                *)
(***************************************************************************)
\* C31: parse_line returns a ValidationError when a required field is absent
\* or the role is not user/assistant, a parse error when the line is not
\* valid JSON, and a ParsedMessage otherwise; and lines_processed =
\* messages_parsed + parse_errors + validation_errors between resets.
C31_ParseLineOutcome ==
    /\ parser_stats.lines_processed =
           parser_stats.messages_parsed + parser_stats.parse_errors
           + parser_stats.validation_errors
    /\ line_call.pc = "returned" =>
          line_call.error_type =
              IF line_call.line.kind \in {"missing_fields", "bad_role"}
              THEN "ValidationError"
              ELSE IF line_call.line.kind \in {"invalid_json", "blank"}
              THEN "JSONDecodeError"
              ELSE ""

C40_NoPartialSample ==
    /\ Len(detection_latencies) = Len(processing_latencies)
    /\ Len(processing_latencies) = Len(throughput_samples)
    /\ Len(detection_latencies) <= MaxSamples
    /\ perf_stats.sla_violations <= perf_stats.total_samples

(***************************************************************************)
(* Properties of the orchestrator's samples and of the events it drops.    *)
(***************************************************************************)
\* C37: for a successfully processed event, the recorded sample's detection
\* latency is the time between detected_at and the start of processing,
\* clamped to at least 0.1 ms, so an event whose processing starts more than
\* the threshold after its detection is counted as an SLA violation.
C37_DetectionLatency ==
    /\ \A i \in DOMAIN detection_latencies :
          detection_latencies[i] = Max(1, clocks.delay)
    /\ clocks.delay > Threshold =>
          perf_stats.sla_violations = perf_stats.total_samples

\* C33: an event whose kind is deleted or moved, or whose path does not end
\* in .jsonl, is dropped: the parser and the writer are not called, and no
\* counter of the orchestrator, of the writer or of the performance monitor
\* and no sample changes.
C33_DroppedEventNoEffect ==
    [][\A ev \in FileEvents :
          (~Processed(ev) /\ handle_file_event(ev)) =>
              /\ UNCHANGED <<nextUuid, call, writes>>
              /\ UNCHANGED <<monitor_stats, stats, conversations, messages>>
              /\ UNCHANGED <<total_samples, perf_stats, detection_latencies,
                             processing_latencies, throughput_samples>>]_vars

\* a dropped event, and a processed one with its sample
C33_Witness ==
    /\ events = 2
    /\ nextUuid = 1
    /\ monitor_stats.files_processed = 1
    /\ Len(detection_latencies) = 1

(***************************************************************************)
(* Properties of the endpoints' handshake, receive loop and registry.      *)
(***************************************************************************)
\* C38: if sending the connection_established envelope fails during accept,
\* accept fails and the newly minted client id is in neither the session
\* table nor any index set afterwards, also when accept was called from the
\* /ws endpoint.
C38_FailedHandshakeLeavesNothing ==
    \A c \in ClientIds :
        connCall[c] = "raised" =>
            /\ c \notin Keys(active_connections)
            /\ ~client_metadata[c].present
            /\ \A k \in DOMAIN subscriptions : c \notin subscriptions[k]

\* C34: in an endpoint's receive loop, every incoming frame of type ping
\* causes a pong frame to be sent back to that peer, a frame of unknown type
\* causes the error "unsupported message type" to be sent back, and
\* malformed JSON is ignored without ending the loop.
C34_LoopReplies ==
    \A c \in ClientIds :
        (endpoint[c].loop = "receiving" /\ connCall[c] = "returned") =>
            /\ Count(PongFrame, inbox[c]) = Count("ping", received[c])
            /\ Count(ErrorFrame, inbox[c]) = Count("unknown", received[c])

\* C36: the registry that broadcast_conversation_update and
\* broadcast_file_monitoring_update publish to is the registry in which /ws
\* registers sessions: a session accepted on /ws and subscribed to the
\* matching key or to all_conversations receives every envelope published
\* through the two functions.
C36_SameRegistry ==
    \A n \in DOMAIN published :
        LET p == published[n]
        IN /\ p.ws_sessions \subseteq p.registry
           /\ \A c \in p.ws_sessions :
                 (/\ bc[p.b].status = "returned"
                  /\ c \in Keys(active_connections)
                  /\ c \notin Range(bc[p.b].failed)
                  /\ {p.filter, "all_conversations"}
                        \cap Range(client_metadata[c].subscriptions) # {})
                     => Count(BcFrame(p.b), inbox[c]) = 1

(***************************************************************************)
(* Properties of the priority message queue.                               *)
(***************************************************************************)
\* C35: for any sequence of enqueue and dequeue calls, also with several
\* queued messages of one client_id, every enqueued message is returned by
\* dequeue exactly once, higher priority first and enqueue order within a
\* priority, dequeue on an empty queue returns None, and size() is the
\* number of messages enqueued and not yet dequeued.
C35_QueueOrder ==
    LET returned == {n \in DOMAIN dequeued : dequeued[n].outcome = "message"}
    IN /\ \A n \in DOMAIN dequeued :
             /\ dequeued[n].outcome \in {"message", "None"}
             /\ dequeued[n].outcome = "message" =>
                   \A f \in dequeued[n].rest : Before(dequeued[n], f)
             /\ dequeued[n].outcome = "None" =>
                   counter = Cardinality(returned) + Cardinality(queue)
       /\ \A n, m \in returned :
             dequeued[n].count = dequeued[m].count => n = m
       /\ {dequeued[n].count : n \in returned}
             \cup {e.count : e \in queue} = 1..counter
       /\ size = counter - Cardinality(returned)

(***************************************************************************)
(* Properties of stopped observers.                                        *)
(***************************************************************************)
\* C39: once stop() has returned, no event from the stopped observer is
\* processed by the orchestrator, and a stop() followed by start() never
\* leaves two live observers feeding the same handler, also when the first
\* observer did not join within the grace period.
C39_StoppedObserverSilent ==
    /\ late = <<>>
    /\ ~(abandoned # {} /\ observer.thread = "alive"
         /\ observer.serial \notin abandoned)
====
